---- MODULE Spec2Model ----
(***************************************************************************)
(* A model of the DXBC shader debugger's single-step interpreter           *)
(* (renderdoc/driver/shaders/dxbc/dxbc_debug.cpp): the per-lane State, the  *)
(* operand addressing of GetSrc/SetDst with change tracking, and the       *)
(* control-flow resolution of State::GetNext.                              *)
(*                                                                         *)
(* A 32-bit register component is a pair <<hi, lo>> of 16-bit halves, so    *)
(* that every bit pattern is represented exactly and unsigned arithmetic   *)
(* wraps modulo 2^32.                                                      *)
(***************************************************************************)
EXTENDS Integers, Sequences, FiniteSets, TLC

VARIABLES
    program,          \* dxbc: the decoded instruction stream (fixed per run)
    nextInstruction,  \* State::nextInstruction
    done,             \* State::done
    flags,            \* State::flags (set of ShaderEvents)
    registers,        \* State::registers
    indexableTemps,   \* State::indexableTemps
    outputs,          \* State::outputs
    modified,         \* State::modified
    currentInstruction, \* index last given to apiWrapper->SetCurrentInstruction
    global,           \* the GlobalState every lane shares
    quad,             \* the caller's array of lane States; empty when the
                      \* caller has no quad to pass (quad == NULL)
    quadIndex,        \* State::quadIndex of the lane the caller works on
    call,             \* the last call of a helper function: name, arguments
                      \* and result
    input,            \* the State GetNext was last called on (*this)
    globalIn,         \* the GlobalState that call started from
    srcOpers,         \* the source operand values the last call read
    lastStep          \* which path the last GetNext call took

vars == <<program, nextInstruction, done, flags, registers, indexableTemps,
          outputs, modified, currentInstruction, global, quad, quadIndex,
          call, input, globalIn, srcOpers, lastStep>>

-----------------------------------------------------------------------------
(* 32-bit words *)

Half == 65536

W(n) == <<n \div Half, n % Half>>

WordAdd(a, b) ==
    LET lo == a[2] + b[2]
        hi == a[1] + b[1] + (lo \div Half)
    IN  <<hi % Half, lo % Half>>

\* unsigned comparison of a word with a container size
WordLess(a, n) == a[1] = 0 /\ a[2] < n

\* low 16 bits: the uint16_t cast of RegisterRange::index
Low16(a) == a[2]

Zero32 == <<0, 0>>
One32 == <<0, 1>>
Five32 == <<0, 5>>
MinusOne32 == <<65535, 65535>>
NegZero32 == <<32768, 0>>
Float1 == <<16256, 0>>
Float2 == <<16384, 0>>
Float3 == <<16448, 0>>
Float4 == <<16512, 0>>
FloatInf == <<32640, 0>>
FloatNaN == <<32704, 0>>
FloatMinNormal == <<128, 0>>
FloatMinNormalx1p5 == <<192, 0>>
NegFloatMinNormal == <<32896, 0>>
FloatDenormHalfMin == <<64, 0>>

\* IEEE-754 binary32 fields of a word
SignBit(w) == w[1] \div 32768
ExpField(w) == (w[1] \div 128) % 256
MantField(w) == (w[1] % 128) * Half + w[2]

IsNaN(w) == ExpField(w) = 255 /\ MantField(w) # 0
IsInf(w) == ExpField(w) = 255 /\ MantField(w) = 0
IsDenormal(w) == ExpField(w) = 0 /\ MantField(w) # 0

\* a mutant of flush_denorm that also drops the sign
flush_denorm_unsigned(w) ==
    IF ExpField(w) # 0 THEN w ELSE Zero32

\* flush_denorm: exponent bits clear -> keep only the sign bit
flush_denorm(w) ==
    IF ExpField(w) # 0 THEN w ELSE <<SignBit(w) * 32768, 0>>


-----------------------------------------------------------------------------
(* Shader values, operands and instructions *)

\* dstoper.comps[i] / oper.comps[i] of an unselected slot
NoComp == 255

\* a ShaderVariable travelling between GetSrc, the helpers and SetDst
Val(uv, columns, type) == [uv |-> uv, columns |-> columns, type |-> type]

Vec4(x, y, z, w) == <<x, y, z, w>>
Splat(w) == <<w, w, w, w>>

\* the operand that closes the recursion of relative indices
NoOperand ==
    [type |-> "NULL", indices |-> <<>>, comps |-> Splat(NoComp),
     numComponents |-> 0, values |-> Splat(Zero32), modifier |-> "NONE"]

AbsIndex(n) ==
    [absolute |-> TRUE, index |-> n, relative |-> FALSE, operand |-> NoOperand]

\* index n + the x component of the operand rel
RelIndex(n, rel) ==
    [absolute |-> TRUE, index |-> n, relative |-> TRUE, operand |-> rel]

Operand(type, indices, comps) ==
    [type |-> type, indices |-> indices, comps |-> comps,
     numComponents |-> 4, values |-> Splat(Zero32), modifier |-> "NONE"]

Imm1(w) ==
    [type |-> "IMMEDIATE32", indices |-> <<>>, comps |-> Splat(NoComp),
     numComponents |-> 1, values |-> Vec4(w, Zero32, Zero32, Zero32),
     modifier |-> "NONE"]

Imm4(v) ==
    [type |-> "IMMEDIATE32", indices |-> <<>>, comps |-> Vec4(0, 1, 2, 3),
     numComponents |-> 4, values |-> v, modifier |-> "NONE"]

Instr(operation, operands) ==
    [operation |-> operation, operands |-> operands,
     nonzero |-> FALSE, saturate |-> FALSE, stride |-> 0]

\* ld_structured carries the stride of the view it reads
InstrStride(operation, operands, stride) ==
    [operation |-> operation, operands |-> operands,
     nonzero |-> FALSE, saturate |-> FALSE, stride |-> stride]

InstrNZ(operation, operands, nz) ==
    [operation |-> operation, operands |-> operands,
     nonzero |-> nz, saturate |-> FALSE, stride |-> 0]

InstrSat(operation, operands) ==
    [operation |-> operation, operands |-> operands,
     nonzero |-> FALSE, saturate |-> TRUE, stride |-> 0]

\* dxbc->GetNumInstructions()
NumInstructions == Len(program)

\* dxbc->GetInstruction(i), for the 0-based index i of the source
GetInstruction(i) == program[i + 1]

-----------------------------------------------------------------------------
(* Operation classifier *)

\* State::OperationType: the opcodes that return VarType::Float
FloatOps ==
    {"LOOP", "CONTINUE", "CONTINUEC", "ENDLOOP", "SWITCH", "CASE", "DEFAULT",
     "ENDSWITCH", "ELSE", "ENDIF", "RET", "RETC", "DISCARD", "NOP",
     "CUSTOMDATA", "SYNC", "STORE_UAV_TYPED", "STORE_RAW",
     "STORE_STRUCTURED", "SAMPLE", "SAMPLE_L", "SAMPLE_B", "SAMPLE_C",
     "SAMPLE_C_LZ", "GATHER4", "GATHER4_C", "GATHER4_PO", "GATHER4_PO_C",
     "SAMPLE_D", "RESINFO", "BUFINFO", "SAMPLE_INFO", "SAMPLE_POS",
     "EVAL_CENTROID", "EVAL_SAMPLE_INDEX", "EVAL_SNAPPED", "LOD", "LD",
     "LD_MS", "ADD", "MUL", "DIV", "MOV", "MOVC", "MAX", "MIN", "MAD", "DP2",
     "DP3", "DP4", "SINCOS", "F16TOF32", "F32TOF16", "FRC", "FTOI", "FTOU",
     "FTOD", "ROUND_PI", "ROUND_Z", "ROUND_NE", "ROUND_NI", "RCP", "RSQ",
     "SQRT", "LOG", "EXP", "LT", "GE", "EQ", "NE", "DERIV_RTX",
     "DERIV_RTX_COARSE", "DERIV_RTX_FINE", "DERIV_RTY", "DERIV_RTY_COARSE",
     "DERIV_RTY_FINE"}

\* the opcodes that return VarType::SInt
SIntOps ==
    {"AND", "OR", "IADD", "IMUL", "IMAD", "ISHL", "IGE", "IEQ", "ILT",
     "ISHR", "IBFE", "INE", "INEG", "IMAX", "IMIN", "SWAPC", "BREAK",
     "BREAKC", "IF", "ITOF", "DTOI", "ATOMIC_IADD", "ATOMIC_IMAX",
     "ATOMIC_IMIN", "IMM_ATOMIC_IADD", "IMM_ATOMIC_IMAX", "IMM_ATOMIC_IMIN"}

\* the opcodes that return VarType::UInt
UIntOps ==
    {"ATOMIC_AND", "ATOMIC_OR", "ATOMIC_XOR", "ATOMIC_CMP_STORE",
     "ATOMIC_UMAX", "ATOMIC_UMIN", "IMM_ATOMIC_AND", "IMM_ATOMIC_OR",
     "IMM_ATOMIC_XOR", "IMM_ATOMIC_EXCH", "IMM_ATOMIC_CMP_EXCH",
     "IMM_ATOMIC_UMAX", "IMM_ATOMIC_UMIN", "BFREV", "COUNTBITS",
     "FIRSTBIT_HI", "FIRSTBIT_LO", "FIRSTBIT_SHI", "UADDC", "USUBB", "UMAD",
     "UMUL", "UMIN", "IMM_ATOMIC_ALLOC", "IMM_ATOMIC_CONSUME", "UMAX",
     "UDIV", "UTOF", "USHR", "ULT", "UGE", "BFI", "UBFE", "NOT", "XOR",
     "LD_RAW", "LD_UAV_TYPED", "LD_STRUCTURED", "DTOU"}

\* the opcodes that return VarType::Double
DoubleOps ==
    {"DADD", "DMAX", "DMIN", "DMUL", "DEQ", "DNE", "DGE", "DLT", "DMOV",
     "DMOVC", "DTOF", "DDIV", "DFMA", "DRCP", "ITOD", "UTOD"}

\* an opcode the switch does not list is reported and typed Float
OperationType(op) ==
    IF op \in SIntOps THEN "SInt"
    ELSE IF op \in UIntOps THEN "UInt"
    ELSE IF op \in DoubleOps THEN "Double"
    ELSE IF op \in FloatOps THEN "Float"
    ELSE "Float"

\* State::OperationFlushing: the opcodes that return true
FlushingOps ==
    {"ADD", "MUL", "DIV", "MAX", "MIN", "MAD", "DP2", "DP3", "DP4", "SINCOS",
     "FRC", "ROUND_PI", "ROUND_Z", "ROUND_NE", "ROUND_NI", "RCP", "RSQ",
     "SQRT", "LOG", "EXP", "LT", "GE", "EQ", "NE", "SAMPLE", "SAMPLE_L",
     "SAMPLE_B", "SAMPLE_C", "SAMPLE_C_LZ", "SAMPLE_D", "GATHER4",
     "GATHER4_C", "GATHER4_PO", "GATHER4_PO_C", "RESINFO", "BUFINFO",
     "SAMPLE_INFO", "SAMPLE_POS", "EVAL_CENTROID", "EVAL_SAMPLE_INDEX",
     "EVAL_SNAPPED", "LOD", "DERIV_RTX", "DERIV_RTX_COARSE",
     "DERIV_RTX_FINE", "DERIV_RTY", "DERIV_RTY_COARSE", "DERIV_RTY_FINE"}

\* the opcodes that return false
NonFlushingOps ==
    {"ITOF", "UTOF", "FTOI", "FTOU", "F16TOF32", "F32TOF16", "DTOF", "FTOD",
     "MOV", "MOVC", "LD", "LD_MS", "LOOP", "CONTINUE", "CONTINUEC",
     "ENDLOOP", "SWITCH", "CASE", "DEFAULT", "ENDSWITCH", "ELSE", "ENDIF",
     "RET", "RETC", "DISCARD", "NOP", "CUSTOMDATA", "SYNC",
     "STORE_UAV_TYPED", "STORE_RAW", "STORE_STRUCTURED", "AND", "OR", "IADD",
     "IMUL", "IMAD", "ISHL", "IGE", "IEQ", "ILT", "ISHR", "IBFE", "INE",
     "INEG", "IMAX", "IMIN", "SWAPC", "BREAK", "BREAKC", "IF", "DTOI",
     "ATOMIC_IADD", "ATOMIC_IMAX", "ATOMIC_IMIN", "IMM_ATOMIC_IADD",
     "IMM_ATOMIC_IMAX", "IMM_ATOMIC_IMIN", "ATOMIC_AND", "ATOMIC_OR",
     "ATOMIC_XOR", "ATOMIC_CMP_STORE", "ATOMIC_UMAX", "ATOMIC_UMIN",
     "IMM_ATOMIC_AND", "IMM_ATOMIC_OR", "IMM_ATOMIC_XOR", "IMM_ATOMIC_EXCH",
     "IMM_ATOMIC_CMP_EXCH", "IMM_ATOMIC_UMAX", "IMM_ATOMIC_UMIN", "BFREV",
     "COUNTBITS", "FIRSTBIT_HI", "FIRSTBIT_LO", "FIRSTBIT_SHI", "UADDC",
     "USUBB", "UMAD", "UMUL", "UMIN", "IMM_ATOMIC_ALLOC",
     "IMM_ATOMIC_CONSUME", "UMAX", "UDIV", "USHR", "ULT", "UGE", "BFI",
     "UBFE", "NOT", "XOR", "LD_RAW", "LD_UAV_TYPED", "LD_STRUCTURED", "DTOU",
     "DADD", "DMAX", "DMIN", "DMUL", "DEQ", "DNE", "DGE", "DLT", "DMOV",
     "DMOVC", "DDIV", "DFMA", "DRCP", "ITOD", "UTOD"}

\* a mutant of OperationFlushing: the int/float conversions flush
OperationFlushingConversions(op) ==
    op \in FlushingOps \cup {"ITOF", "UTOF", "FTOI", "FTOU"}

\* an opcode the switch does not list is reported and does not flush
OperationFlushing(op) == op \in FlushingOps

-----------------------------------------------------------------------------
(* Value arithmetic helpers, on bit patterns *)

Pow2(n) == 2 ^ n

MakeFloat(sign, exp, mant) ==
    <<sign * 32768 + exp * 128 + (mant \div Half), mant % Half>>

WordNot(w) == <<(Half - 1) - w[1], (Half - 1) - w[2]>>

\* -x on int32
WordNeg(w) == WordAdd(WordNot(w), One32)

\* x > 0 on int32
SIntPositive(w) == w[1] < 32768 /\ w # Zero32

\* x < 0 on int32
SIntNegative(w) == w[1] >= 32768

\* -f : the sign bit flips, also for zeros and NaNs
FloatNeg(w) == <<(w[1] + 32768) % Half, w[2]>>

\* the order of two floats that are not NaN, as an integer key
FloatKey(w) ==
    LET mag == (w[1] % 32768) * Half + w[2]
    IN  IF SignBit(w) = 1 THEN 0 - mag ELSE mag

\* a < b  and  a >= b  on float; false when either is NaN
FloatLess(a, b) == ~IsNaN(a) /\ ~IsNaN(b) /\ FloatKey(a) < FloatKey(b)
FloatGreaterEq(a, b) == ~IsNaN(a) /\ ~IsNaN(b) /\ FloatKey(a) >= FloatKey(b)

\* a mutant of dxbc_min: a NaN operand is handed on
dxbc_min_propagate(a, b) ==
    IF IsNaN(a) THEN a
    ELSE IF IsNaN(b) THEN b
    ELSE IF FloatLess(a, b) THEN a ELSE b

dxbc_min(a, b) ==
    IF IsNaN(a) THEN b
    ELSE IF IsNaN(b) THEN a
    ELSE IF FloatLess(a, b) THEN a ELSE b

dxbc_max(a, b) ==
    IF IsNaN(a) THEN b
    ELSE IF IsNaN(b) THEN a
    ELSE IF FloatGreaterEq(a, b) THEN a ELSE b

\* the significand with its hidden bit, and the exponent it is scaled by
Significand(w) == MantField(w) + (IF ExpField(w) # 0 THEN Pow2(23) ELSE 0)
Exponent(w) == IF ExpField(w) # 0 THEN ExpField(w) ELSE 1

\* shift right by d keeping a sticky lowest bit
ShiftRightSticky(x, d) ==
    IF d >= 30 THEN (IF x # 0 THEN 1 ELSE 0)
    ELSE LET q == x \div Pow2(d)
         IN  IF x % Pow2(d) # 0 /\ q % 2 = 0 THEN q + 1 ELSE q

\* shift the 27-bit working significand left until bit 26 is set or the
\* exponent reaches the denormal exponent
RECURSIVE Normalise(_, _)
Normalise(r, e) ==
    IF r >= Pow2(26) \/ e <= 1 THEN <<r, e>>
    ELSE Normalise(r * 2, e - 1)

\* round the working significand (3 guard bits) to nearest even and pack
RoundPack(sign, r0, e0) ==
    LET q == r0 \div 8
        g == r0 % 8
        up == g > 4 \/ (g = 4 /\ q % 2 = 1)
        q1 == IF up THEN q + 1 ELSE q
        q2 == IF q1 = Pow2(24) THEN Pow2(23) ELSE q1
        e2 == IF q1 = Pow2(24) THEN e0 + 1 ELSE e0
    IN  IF q2 < Pow2(23) THEN MakeFloat(sign, 0, q2)
        ELSE IF e2 >= 255 THEN MakeFloat(sign, 255, 0)
        ELSE MakeFloat(sign, e2, q2 - Pow2(23))

\* a + b on float (IEEE-754 binary32, round to nearest even)
FloatAdd(a, b) ==
    IF IsNaN(a) THEN <<a[1] - (a[1] % 128) + ((a[1] % 128) % 64) + 64, a[2]>>
    ELSE IF IsNaN(b) THEN <<b[1] - (b[1] % 128) + ((b[1] % 128) % 64) + 64, b[2]>>
    ELSE IF IsInf(a) /\ IsInf(b) /\ SignBit(a) # SignBit(b)
        THEN MakeFloat(1, 255, Pow2(22))
    ELSE IF IsInf(a) THEN a
    ELSE IF IsInf(b) THEN b
    ELSE IF Significand(a) = 0 /\ Significand(b) = 0
        THEN (IF SignBit(a) = 1 /\ SignBit(b) = 1 THEN NegZero32 ELSE Zero32)
    ELSE IF Significand(a) = 0 THEN b
    ELSE IF Significand(b) = 0 THEN a
    ELSE
      LET aBig == \/ Exponent(a) > Exponent(b)
                  \/ (Exponent(a) = Exponent(b) /\ Significand(a) >= Significand(b))
          big == IF aBig THEN a ELSE b
          small == IF aBig THEN b ELSE a
          d == Exponent(big) - Exponent(small)
          sb == Significand(big) * 8
          ss == ShiftRightSticky(Significand(small) * 8, d)
          e == Exponent(big)
      IN  IF SignBit(big) = SignBit(small)
          THEN LET r == sb + ss
               IN  IF r >= Pow2(27)
                   THEN RoundPack(SignBit(big), ShiftRightSticky(r, 1), e + 1)
                   ELSE RoundPack(SignBit(big), r, e)
          ELSE LET r == sb - ss
               IN  IF r = 0 THEN Zero32
                   ELSE LET n == Normalise(r, e)
                        IN  RoundPack(SignBit(big), n[1], n[2])

\* bit k (0..31) of a word
WordBit(w, k) ==
    IF k >= 16 THEN (w[1] \div Pow2(k - 16)) % 2 ELSE (w[2] \div Pow2(k)) % 2

\* x << n on uint32_t, 0 <= n <= 31
WordShl(w, n) ==
    IF n >= 16 THEN <<(w[2] * Pow2(n - 16)) % Half, 0>>
    ELSE <<(w[1] * Pow2(n) + (w[2] * Pow2(n)) \div Half) % Half, (w[2] * Pow2(n)) % Half>>

\* x >> n on uint32_t, 0 <= n <= 31
WordShr(w, n) ==
    IF n >= 16 THEN <<0, w[1] \div Pow2(n - 16)>>
    ELSE <<w[1] \div Pow2(n), (w[2] \div Pow2(n)) + (w[1] % Pow2(n)) * Pow2(16 - n)>>

\* x >> n on int32_t: the sign bit is shifted in
WordSar(w, n) ==
    IF w[1] >= 32768 THEN WordNot(WordShr(WordNot(w), n)) ELSE WordShr(w, n)

\* a double as its two 32-bit words (value.d.x is uv[0], uv[1]; little endian)
Dbl(lo, hi) == [lo |-> lo, hi |-> hi]

\* DoubleGet: value.d.x and value.d.y of a ShaderVariable
DoubleGet(v) == <<Dbl(v.uv[1], v.uv[2]), Dbl(v.uv[3], v.uv[4])>>

\* DoubleSet: the four words of two doubles, typed Double
DoubleSet(v, d) == Val(<<d[1].lo, d[1].hi, d[2].lo, d[2].hi>>, v.columns, "Double")

DSign(d) == d.hi[1] \div 32768
DExp(d) == (d.hi[1] % 32768) \div 16
DIsNaN(d) == DExp(d) = 2047 /\ (d.hi[1] % 16 # 0 \/ d.hi[2] # 0 \/ d.lo # Zero32)
DIsZero(d) == d.hi[1] % 32768 = 0 /\ d.hi[2] = 0 /\ d.lo = Zero32

\* the magnitude of a double as a tuple ordered most significant first
DMagnitude(d) == <<d.hi[1] % 32768, d.hi[2], d.lo[1], d.lo[2]>>

\* lexicographic a < b on magnitudes
DMagLess(a, b) ==
    \E k \in 1..4 : /\ \A j \in 1..(k - 1) : a[j] = b[j]
                    /\ a[k] < b[k]

\* a == b, a < b, a >= b on double; all false when either is NaN
DoubleEq(a, b) ==
    /\ ~DIsNaN(a) /\ ~DIsNaN(b)
    /\ \/ a = b
       \/ DIsZero(a) /\ DIsZero(b)

DoubleLess(a, b) ==
    /\ ~DIsNaN(a) /\ ~DIsNaN(b)
    /\ ~(DIsZero(a) /\ DIsZero(b))
    /\ IF DSign(a) # DSign(b) THEN DSign(a) = 1
       ELSE IF DSign(a) = 0 THEN DMagLess(DMagnitude(a), DMagnitude(b))
       ELSE DMagLess(DMagnitude(b), DMagnitude(a))

DoubleGreaterEq(a, b) == ~DIsNaN(a) /\ ~DIsNaN(b) /\ ~DoubleLess(a, b)

\* -d : the sign bit flips
DoubleNeg(d) == Dbl(d.lo, <<(d.hi[1] + 32768) % Half, d.hi[2]>>)

DZero == Dbl(Zero32, Zero32)

\* bit k of the 53-bit significand of a double (bit 52 is the hidden bit)
DSigBit(d, k) ==
    IF k < 0 \/ k > 52 THEN 0
    ELSE IF k = 52 THEN (IF DExp(d) # 0 THEN 1 ELSE 0)
    ELSE IF k >= 32 THEN WordBit(d.hi, k - 32)
    ELSE WordBit(d.lo, k)

\* the n significand bits from bit s upwards, as a number (n <= 24)
DSigField(d, s, n) ==
    LET acc[j \in 0..n] ==
            IF j = 0 THEN 0 ELSE acc[j - 1] + DSigBit(d, s + j - 1) * Pow2(j - 1)
    IN  acc[n]

\* the integer part of |d| as a 32-bit word, for |d| < 2^32
DTruncMagnitude(d) ==
    LET s == 52 - (DExp(d) - 1023)
    IN  <<DSigField(d, s + 16, 16), DSigField(d, s, 16)>>

\* d lies strictly between -1 and 2^32: uint32_t(d) is defined
DFitsUInt(d) ==
    /\ DExp(d) # 2047
    /\ IF DSign(d) = 1 THEN DExp(d) < 1023 ELSE DExp(d) - 1023 <= 31

\* d lies strictly between -2^31 - 1 and 2^31: int32_t(d) is defined
DFitsSInt(d) ==
    /\ DExp(d) # 2047
    /\ \/ DExp(d) - 1023 <= 30
       \/ DSign(d) = 1 /\ DExp(d) - 1023 = 31 /\ DTruncMagnitude(d) = <<32768, 0>>

\* what a conversion outside the target range can yield (undefined behaviour)
UndefinedConversions == {Zero32, <<32768, 0>>, MinusOne32}

\* uint32_t(d); u is the outcome when d is out of range
DoubleToUInt(d, u) ==
    IF ~DFitsUInt(d) THEN u
    ELSE IF DSign(d) = 1 THEN Zero32 ELSE DTruncMagnitude(d)

\* int32_t(d); u is the outcome when d is out of range
DoubleToSInt(d, u) ==
    IF ~DFitsSInt(d) THEN u
    ELSE IF DSign(d) = 1 THEN WordNeg(DTruncMagnitude(d)) ELSE DTruncMagnitude(d)

\* float(d), rounding to nearest even
DoubleToFloat(d) ==
    LET ef == DExp(d) - 896
        s == IF ef >= 1 THEN 29 ELSE 30 - ef
        q == DSigField(d, s, 24)
        guard == DSigBit(d, s - 1)
        sticky == \E k \in 0..52 : k < s - 1 /\ DSigBit(d, k) = 1
        up == IF guard = 1 /\ (sticky \/ q % 2 = 1) THEN 1 ELSE 0
        packed == (IF ef >= 1 THEN (ef - 1) * Pow2(23) ELSE 0) + q + up
        word(p) == <<DSign(d) * 32768 + p \div Half, p % Half>>
    IN  IF DIsNaN(d)
        THEN <<DSign(d) * 32768 + 32704 + DSigField(d, 45, 6), DSigField(d, 29, 16)>>
        ELSE IF DExp(d) = 2047 \/ ef >= 255 THEN word(255 * Pow2(23))
        ELSE IF DExp(d) = 0 THEN word(0)
        ELSE IF packed >= 255 * Pow2(23) THEN word(255 * Pow2(23))
        ELSE word(packed)

\* one component of abs() for the operation's type
AbsComp(w, type) ==
    CASE type = "SInt" -> IF SIntPositive(w) THEN w ELSE WordNeg(w)
      [] type = "Float" -> IF FloatLess(Zero32, w) THEN w ELSE FloatNeg(w)
      [] OTHER -> w

\* one component of neg() for the operation's type
NegComp(w, type) ==
    CASE type = "SInt" -> WordNeg(w)
      [] type = "Float" -> FloatNeg(w)
      [] OTHER -> w

\* one component of sat() for the operation's type
SatComp(w, type) ==
    CASE type = "SInt" ->
            IF SIntNegative(w) THEN Zero32
            ELSE IF SIntPositive(w) /\ w # One32 THEN One32 ELSE w
      [] type = "UInt" -> IF w # Zero32 THEN One32 ELSE Zero32
      [] OTHER -> dxbc_min(Float1, dxbc_max(Zero32, w))

\* abs(): r = v, then the first v.columns components are replaced (both
\* doubles for a Double operation)
abs(v, type) ==
    IF type = "Double"
    THEN DoubleSet(v, [k \in 1..2 |->
                         IF DoubleLess(DZero, DoubleGet(v)[k]) THEN DoubleGet(v)[k]
                         ELSE DoubleNeg(DoubleGet(v)[k])])
    ELSE Val([i \in 1..4 |-> IF i <= v.columns THEN AbsComp(v.uv[i], type)
                             ELSE v.uv[i]],
             v.columns, type)

\* neg(): r = v, then the first v.columns components are replaced (both
\* doubles for a Double operation)
neg(v, type) ==
    IF type = "Double"
    THEN DoubleSet(v, [k \in 1..2 |-> DoubleNeg(DoubleGet(v)[k])])
    ELSE Val([i \in 1..4 |-> IF i <= v.columns THEN NegComp(v.uv[i], type)
                             ELSE v.uv[i]],
             v.columns, type)

\* sat(): r = v, then the first v.columns components are replaced
sat(v, type) ==
    Val([i \in 1..4 |-> IF i <= v.columns THEN SatComp(v.uv[i], type) ELSE v.uv[i]],
        v.columns, type)

AddComp(x, y, type) ==
    CASE type = "Float" -> FloatAdd(x, y)
      [] OTHER -> WordAdd(x, y)

\* add(): r = a, then the first a.columns components are summed
add(a, b, type) ==
    Val([i \in 1..4 |-> IF i <= a.columns THEN AddComp(a.uv[i], b.uv[i], type)
                        ELSE a.uv[i]],
        a.columns, type)

\* sub(): add(a, neg(b, type), type)
sub(a, b, type) == add(a, neg(b, type), type)

-----------------------------------------------------------------------------
(* Execution state: operand addressing *)

\* type tag of the ShaderVariables State::Init constructs (integer zeros)
RegisterVarType == "SInt"

\* type tag of a default-constructed ShaderVariable (immediates)
DefaultVarType == "Float"

\* trace->inputs : the captured stage inputs
TraceInputs == <<Vec4(Float1, Float2, Float3, Float4)>>

\* dxbc->m_OutputSig[i].systemValue, one per output register
OutputSig == <<"Undefined", "DepthOutput">>

\* outputs[i].name, matched by the string fallback of SetDst
OutputNames == <<"o0", "oDepth">>

\* the lane State handed through one GetNext call
LaneState ==
    [nextInstruction |-> nextInstruction, done |-> done, flags |-> flags,
     registers |-> registers, indexableTemps |-> indexableTemps,
     outputs |-> outputs, modified |-> modified]

\* operand kinds that carry no numeric payload
PlaceholderTypes ==
    {"THREAD_GROUP_SHARED_MEMORY", "RESOURCE", "SAMPLER",
     "UNORDERED_ACCESS_VIEW", "NULL", "RASTERIZER"}

\* a mutant of SwizzleComps: an unspecified slot reads component x
SwizzleCompsFromX(comps, uv) ==
    [i \in 1..4 |-> uv[(IF comps[i] = NoComp THEN 0 ELSE comps[i]) + 1]]

SwizzleComps(comps, uv) ==
    [i \in 1..4 |-> uv[(IF comps[i] = NoComp THEN i - 1 ELSE comps[i]) + 1]]

SwizzleColumns(comps) ==
    IF comps[1] # NoComp /\ comps[2] = NoComp /\ comps[3] = NoComp
       /\ comps[4] = NoComp
    THEN 1 ELSE 4

\* GetSrc, after the lookup: the swizzle
SwizzleSrc(s, comps) ==
    Val(SwizzleComps(comps, s.uv), SwizzleColumns(comps), s.type)

\* GetSrc: the operand modifier, abs before neg
NegSrc(v, modifier, type) ==
    IF modifier \in {"NEG", "ABSNEG"} THEN neg(v, type) ELSE v

ModifySrc(v, modifier, type) ==
    NegSrc(IF modifier \in {"ABS", "ABSNEG"} THEN abs(v, type) ELSE v,
           modifier, type)

\* GetSrc: the denormal flush of what a flushing operation reads
FlushSrc(v, flush) ==
    IF flush
    THEN Val([i \in 1..4 |-> flush_denorm(v.uv[i])], v.columns, v.type)
    ELSE v

RECURSIVE GetSrc(_, _, _)

\* indices[i] of GetSrc/SetDst: the absolute part plus the relative operand's x
ResolveIndices(st, oper, op) ==
    [i \in 1..Len(oper.indices) |->
        LET ix == oper.indices[i]
            base == IF ix.absolute THEN W(ix.index) ELSE Zero32
        IN  IF ix.relative
            THEN WordAdd(base, GetSrc(st, ix.operand, op).uv[1])
            ELSE base]

\* the variable an operand names before swizzling: the value s of GetSrc
SrcBase(st, oper, indices) ==
    LET idx0 == IF Len(indices) >= 1 THEN indices[1] ELSE Zero32
        idx1 == IF Len(indices) >= 2 THEN indices[2] ELSE Zero32
    IN
    CASE oper.type = "TEMP" ->
            IF WordLess(idx0, Len(st.registers))
            THEN Val(st.registers[idx0[2] + 1], 4, RegisterVarType)
            ELSE Val(Splat(idx0), 4, "UInt")
      [] oper.type = "INDEXABLE_TEMP" ->
            IF /\ Len(oper.indices) = 2
               /\ WordLess(idx0, Len(st.indexableTemps))
               /\ WordLess(idx1, Len(st.indexableTemps[idx0[2] + 1]))
            THEN Val(st.indexableTemps[idx0[2] + 1][idx1[2] + 1], 4, RegisterVarType)
            ELSE Val(Splat(Zero32), 0, DefaultVarType)
      [] oper.type = "INPUT" ->
            IF WordLess(idx0, Len(TraceInputs))
            THEN Val(TraceInputs[idx0[2] + 1], 4, "Float")
            ELSE Val(Splat(idx0), 4, "UInt")
      [] oper.type = "OUTPUT" ->
            IF WordLess(idx0, Len(st.outputs))
            THEN Val(st.outputs[idx0[2] + 1], 4, RegisterVarType)
            ELSE Val(Splat(idx0), 4, "UInt")
      [] oper.type \in PlaceholderTypes -> Val(Splat(idx0), 4, "UInt")
      [] oper.type = "IMMEDIATE32" ->
            Val([i \in 1..4 |-> IF i <= oper.numComponents
                                THEN oper.values[i] ELSE Zero32],
                oper.numComponents, DefaultVarType)
      [] OTHER -> Val(Splat(Zero32), 4, "UInt")

GetSrc(st, oper, op) ==
    FlushSrc(ModifySrc(SwizzleSrc(SrcBase(st, oper, ResolveIndices(st, oper, op)),
                                  oper.comps),
                       oper.modifier, OperationType(op.operation)),
             OperationFlushing(op.operation) /\ oper.type \notin PlaceholderTypes)

-----------------------------------------------------------------------------
(* Execution state: masked write with change tracking *)

NoTarget(rangeType) == [kind |-> "none", a |-> 0, b |-> 0, rangeType |-> rangeType]

\* position of the first output whose name / system value matches, or 0
FirstMatch(seq, x) ==
    IF \E i \in 1..Len(seq) : seq[i] = x
    THEN CHOOSE i \in 1..Len(seq) : seq[i] = x /\ \A j \in 1..(i - 1) : seq[j] # x
    ELSE 0

SemanticBuiltin(type) ==
    CASE type = "OUTPUT_DEPTH" -> "DepthOutput"
      [] type = "OUTPUT_DEPTH_LESS_EQUAL" -> "DepthOutputLessEqual"
      [] type = "OUTPUT_DEPTH_GREATER_EQUAL" -> "DepthOutputGreaterEqual"
      [] type = "OUTPUT_STENCIL_REF" -> "StencilReference"
      [] type = "OUTPUT_COVERAGE_MASK" -> "MSAACoverage"
      [] OTHER -> "Count"

\* dstoper.toString(): the register name the string fallback compares
OperandName(type) ==
    CASE type = "OUTPUT_DEPTH" -> "oDepth"
      [] type = "OUTPUT_DEPTH_LESS_EQUAL" -> "oDepthLessEqual"
      [] type = "OUTPUT_DEPTH_GREATER_EQUAL" -> "oDepthGreaterEqual"
      [] type = "OUTPUT_STENCIL_REF" -> "oStencilRef"
      [] type = "OUTPUT_COVERAGE_MASK" -> "oMask"
      [] OTHER -> "?"

SemanticOutputTypes ==
    {"OUTPUT_DEPTH", "OUTPUT_DEPTH_LESS_EQUAL", "OUTPUT_DEPTH_GREATER_EQUAL",
     "OUTPUT_STENCIL_REF", "OUTPUT_COVERAGE_MASK"}

\* a mutant of DstTarget: an out-of-range temporary index is clamped to the
\* last register instead of being rejected
DstTargetClamped(st, dstoper, indices) ==
    LET idx0 == IF Len(indices) >= 1 THEN indices[1] ELSE Zero32
    IN  IF dstoper.type = "TEMP"
        THEN [kind |-> "registers",
              a |-> IF WordLess(idx0, Len(st.registers)) THEN idx0[2] + 1
                    ELSE Len(st.registers),
              b |-> 0, rangeType |-> "Temporary"]
        ELSE NoTarget("Undefined")

\* the switch of SetDst: which variable v the destination operand names
DstTarget(st, dstoper, indices) ==
    LET idx0 == IF Len(indices) >= 1 THEN indices[1] ELSE Zero32
        idx1 == IF Len(indices) >= 2 THEN indices[2] ELSE Zero32
        bySem == FirstMatch(OutputSig, SemanticBuiltin(dstoper.type))
        byName == FirstMatch(OutputNames, OperandName(dstoper.type))
    IN
    CASE dstoper.type = "TEMP" ->
            IF WordLess(idx0, Len(st.registers))
            THEN [kind |-> "registers", a |-> idx0[2] + 1, b |-> 0,
                  rangeType |-> "Temporary"]
            ELSE NoTarget("Temporary")
      [] dstoper.type = "INDEXABLE_TEMP" ->
            IF /\ Len(dstoper.indices) = 2
               /\ WordLess(idx0, Len(st.indexableTemps))
               /\ WordLess(idx1, Len(st.indexableTemps[idx0[2] + 1]))
            THEN [kind |-> "indexableTemps", a |-> idx0[2] + 1, b |-> idx1[2] + 1,
                  rangeType |-> "IndexedTemporary"]
            ELSE NoTarget("IndexedTemporary")
      [] dstoper.type = "OUTPUT" ->
            IF WordLess(idx0, Len(st.outputs))
            THEN [kind |-> "outputs", a |-> idx0[2] + 1, b |-> 0,
                  rangeType |-> "Output"]
            ELSE NoTarget("Output")
      [] dstoper.type \in {"INPUT", "CONSTANT_BUFFER"} -> NoTarget("Undefined")
      [] dstoper.type = "NULL" -> NoTarget("Undefined")
      [] dstoper.type \in SemanticOutputTypes ->
            IF bySem # 0
            THEN [kind |-> "outputs", a |-> bySem, b |-> 0, rangeType |-> "Undefined"]
            ELSE IF byName # 0 /\ byName <= Len(st.outputs)
            THEN [kind |-> "outputs", a |-> byName, b |-> 0, rangeType |-> "Undefined"]
            ELSE NoTarget("Undefined")
      [] OTHER ->
            IF byName # 0 /\ byName <= Len(st.outputs)
            THEN [kind |-> "outputs", a |-> byName, b |-> 0, rangeType |-> "Undefined"]
            ELSE NoTarget("Undefined")

\* a mutant of MaskWrites: every component is assigned, whatever the mask
MaskWritesWhole(comps) == [k \in 1..4 |-> [d |-> k - 1, s |-> k - 1]]

\* a mutant of MaskWrites: a one-component mask reads the value's component c
MaskWritesSameComp(comps) ==
    LET sel == SelectSeq(comps, LAMBDA c : c # NoComp)
    IN  IF sel = <<>> THEN <<[d |-> 0, s |-> 0]>>
        ELSE [k \in 1..Len(sel) |-> [d |-> sel[k], s |-> sel[k]]]

\* the (destination component, value component) pairs SetDst assigns, in order
MaskWrites(comps) ==
    IF comps[1] # NoComp /\ comps[2] = NoComp /\ comps[3] = NoComp
       /\ comps[4] = NoComp
    THEN <<[d |-> comps[1], s |-> 0]>>
    ELSE LET sel == SelectSeq(comps, LAMBDA c : c # NoComp)
         IN  IF sel = <<>> THEN <<[d |-> 0, s |-> 0]>>
             ELSE [k \in 1..Len(sel) |-> [d |-> sel[k], s |-> sel[k]]]

\* a mutant of AssignedBits: the stored bits are never flushed
AssignedBitsUnflushed(src, srcIndex, flushDenorm) == src.uv[srcIndex + 1]

\* AssignValue: the new bits of dst[dstIndex]
AssignedBits(src, srcIndex, flushDenorm) ==
    IF flushDenorm /\ src.type = "Float"
    THEN flush_denorm(src.uv[srcIndex + 1])
    ELSE src.uv[srcIndex + 1]

\* AssignValue: its return value, old bits against the unflushed source bits
AssignChanged(dst, dstIndex, src, srcIndex, flushDenorm) ==
    dst[dstIndex + 1] # src.uv[srcIndex + 1]

\* AssignValue: the event flag a NaN or infinite float source raises
AssignFlags(src, srcIndex) ==
    IF src.type = "Float" /\ ExpField(src.uv[srcIndex + 1]) = 255
    THEN {"GeneratedNanOrInf"} ELSE {}

\* the writes of SetDst applied in order to the variable v
RECURSIVE ApplyWrites(_, _, _, _, _, _)
ApplyWrites(acc, writes, k, right, flushDenorm, range) ==
    IF k > Len(writes) THEN acc
    ELSE
      LET wr == writes[k]
          changed == AssignChanged(acc.v, wr.d, right, wr.s, flushDenorm)
          v2 == [acc.v EXCEPT ![wr.d + 1] = AssignedBits(right, wr.s, flushDenorm)]
          m2 == IF changed /\ range.type # "Undefined"
                THEN Append(acc.modified, [range EXCEPT !.component = wr.d])
                ELSE acc.modified
      IN  ApplyWrites([v |-> v2, modified |-> m2,
                       flags |-> acc.flags \cup AssignFlags(right, wr.s)],
                      writes, k + 1, right, flushDenorm, range)

TargetVar(st, t) ==
    CASE t.kind = "registers" -> st.registers[t.a]
      [] t.kind = "indexableTemps" -> st.indexableTemps[t.a][t.b]
      [] t.kind = "outputs" -> st.outputs[t.a]

StoreVar(st, t, v) ==
    CASE t.kind = "registers" -> [st EXCEPT !.registers[t.a] = v]
      [] t.kind = "indexableTemps" -> [st EXCEPT !.indexableTemps[t.a][t.b] = v]
      [] t.kind = "outputs" -> [st EXCEPT !.outputs[t.a] = v]

\* SetDst, once the destination is resolved: the masked write into the
\* variable t names, with its change tracking
SetDstTarget(st, t, index, comps, right, flushDenorm) ==
    LET res == ApplyWrites([v |-> TargetVar(st, t), modified |-> st.modified,
                            flags |-> st.flags],
                           MaskWrites(comps), 1, right, flushDenorm,
                           [type |-> t.rangeType, index |-> index, component |-> 0])
    IN  IF t.kind = "none" THEN st
        ELSE [StoreVar(st, t, res.v) EXCEPT !.modified = res.modified,
                                            !.flags = res.flags]

\* SetDst, once the indices of the destination are resolved
SetDstAt(st, dstoper, op, val, indices) ==
    SetDstTarget(st, DstTarget(st, dstoper, indices),
                 IF Len(indices) >= 1 THEN Low16(indices[1]) ELSE 0,
                 dstoper.comps,
                 IF op.saturate THEN sat(val, OperationType(op.operation)) ELSE val,
                 OperationFlushing(op.operation))

SetDst(st, dstoper, op, val) ==
    SetDstAt(st, dstoper, op, val, ResolveIndices(st, dstoper, op))

-----------------------------------------------------------------------------
(* Control-flow resolver: the scans of State::GetNext *)

OpAt(i) == GetInstruction(i).operation

\* the test of a conditional instruction: taken on zero, or on non-zero when
\* the instruction carries the nonzero flag
TestPasses(test, nonzero) ==
    (test = Zero32 /\ ~nonzero) \/ (test # Zero32 /\ nonzero)

\* a mutant of SwitchScan: a DEFAULT label found first ends the search
RECURSIVE SwitchScanStopAtDefault(_, _, _, _, _)
SwitchScanStopAtDefault(st, search, depth, jumpLocation, switchValue) ==
    IF search >= NumInstructions THEN jumpLocation
    ELSE
      LET nextOp == GetInstruction(search)
      IN  IF nextOp.operation = "SWITCH"
          THEN SwitchScanStopAtDefault(st, search + 1, depth + 1, jumpLocation, switchValue)
          ELSE IF nextOp.operation = "ENDSWITCH"
          THEN SwitchScanStopAtDefault(st, search + 1, depth - 1, jumpLocation, switchValue)
          ELSE IF depth = 0 /\ nextOp.operation = "DEFAULT" THEN search
          ELSE IF depth = 0 /\ nextOp.operation = "CASE"
                  /\ GetSrc(st, nextOp.operands[1], nextOp).uv[1] = switchValue
          THEN search
          ELSE SwitchScanStopAtDefault(st, search + 1, depth, jumpLocation, switchValue)

\* OPCODE_SWITCH: the search for the label to jump to. The ENDSWITCH test
\* inside the depth == 0 branch is never reached, because ENDSWITCH is taken
\* by the branch before it; the search therefore runs to the end of the stream.
RECURSIVE SwitchScan(_, _, _, _, _)
SwitchScan(st, search, depth, jumpLocation, switchValue) ==
    IF search >= NumInstructions THEN jumpLocation
    ELSE
      LET nextOp == GetInstruction(search)
      IN  IF nextOp.operation = "SWITCH"
          THEN SwitchScan(st, search + 1, depth + 1, jumpLocation, switchValue)
          ELSE IF nextOp.operation = "ENDSWITCH"
          THEN SwitchScan(st, search + 1, depth - 1, jumpLocation, switchValue)
          ELSE IF depth = 0
          THEN LET jl == IF nextOp.operation = "DEFAULT" THEN search
                         ELSE jumpLocation
               IN  IF /\ nextOp.operation = "CASE"
                      /\ GetSrc(st, nextOp.operands[1], nextOp).uv[1] = switchValue
                   THEN search
                   ELSE SwitchScan(st, search + 1, depth, jl, switchValue)
          ELSE SwitchScan(st, search + 1, depth, jumpLocation, switchValue)

\* skip past CASE and DEFAULT labels to the next executable instruction
RECURSIVE SkipLabels(_)
SkipLabels(jumpLocation) ==
    IF jumpLocation < NumInstructions /\ OpAt(jumpLocation) \in {"CASE", "DEFAULT"}
    THEN SkipLabels(jumpLocation + 1)
    ELSE jumpLocation

\* OPCODE_SWITCH: nextInstruction after the step, ni being the index after
\* the SWITCH
SwitchTarget(st, ni, switchValue) ==
    LET jumpLocation == SwitchScan(st, ni, 0, 0, switchValue)
    IN  IF jumpLocation = 0 THEN ni ELSE SkipLabels(jumpLocation)

\* a mutant of LoopBackScan: the pointer is stepped once more after the
\* matching LOOP is found
RECURSIVE LoopBackScanPastLoop(_, _)
LoopBackScanPastLoop(ni, depth) ==
    IF ni < 0 THEN ni
    ELSE
      LET d1 == IF OpAt(ni) = "ENDLOOP" THEN depth + 1 ELSE depth
          d2 == IF OpAt(ni) = "LOOP" THEN d1 - 1 ELSE d1
      IN  IF d2 = 0 THEN ni - 1 ELSE LoopBackScanPastLoop(ni - 1, d2)

\* a mutant of LoopBackScan: the nearest LOOP going backwards, whatever
\* complete loops lie in between
RECURSIVE LoopBackScanNearest(_, _)
LoopBackScanNearest(ni, depth) ==
    IF ni < 0 THEN ni
    ELSE IF OpAt(ni) = "LOOP" THEN ni ELSE LoopBackScanNearest(ni - 1, depth)

\* OPCODE_CONTINUE / CONTINUEC / ENDLOOP: the backward scan for the LOOP
RECURSIVE LoopBackScan(_, _)
LoopBackScan(ni, depth) ==
    IF ni < 0 THEN ni
    ELSE
      LET d1 == IF OpAt(ni) = "ENDLOOP" THEN depth + 1 ELSE depth
          d2 == IF OpAt(ni) = "LOOP" THEN d1 - 1 ELSE d1
      IN  IF d2 = 0 THEN ni ELSE LoopBackScan(ni - 1, d2)

\* a mutant of ElseScan: the first ENDIF going forwards, whatever nested
\* blocks lie in between
RECURSIVE ElseScanFirstEndif(_, _)
ElseScanFirstEndif(ni, depth) ==
    IF ni >= NumInstructions THEN ni
    ELSE IF OpAt(ni) = "ENDIF" THEN ni ELSE ElseScanFirstEndif(ni + 1, depth)

\* a mutant of BreakScan: only loops are counted, switches are ignored
RECURSIVE BreakScanLoopsOnly(_, _)
BreakScanLoopsOnly(ni, depth) ==
    IF ni >= NumInstructions THEN ni
    ELSE
      LET d1 == IF OpAt(ni) = "LOOP" THEN depth + 1 ELSE depth
          d2 == IF OpAt(ni) = "ENDLOOP" THEN d1 - 1 ELSE d1
      IN  IF d2 = 0 THEN ni ELSE BreakScanLoopsOnly(ni + 1, d2)

\* OPCODE_BREAK / BREAKC: the forward scan for the closing ENDLOOP/ENDSWITCH
RECURSIVE BreakScan(_, _)
BreakScan(ni, depth) ==
    IF ni >= NumInstructions THEN ni
    ELSE
      LET d1 == IF OpAt(ni) \in {"LOOP", "SWITCH"} THEN depth + 1 ELSE depth
          d2 == IF OpAt(ni) \in {"ENDLOOP", "ENDSWITCH"} THEN d1 - 1 ELSE d1
      IN  IF d2 = 0 THEN ni ELSE BreakScan(ni + 1, d2)

\* a mutant of IfScan: any ELSE closes the search, whatever its depth
RECURSIVE IfScanAnyElse(_, _)
IfScanAnyElse(ni, depth) ==
    IF ni >= NumInstructions THEN ni
    ELSE
      LET d1 == IF OpAt(ni) = "IF" THEN depth + 1 ELSE depth
          d2 == IF OpAt(ni) = "ELSE" THEN 0 ELSE d1
          d3 == IF OpAt(ni) = "ENDIF" THEN d2 - 1 ELSE d2
      IN  IF d3 <= 0 THEN ni ELSE IfScanAnyElse(ni + 1, d3)

\* OPCODE_IF, test failed: the forward scan for the matching ELSE or ENDIF,
\* started on the IF itself
RECURSIVE IfScan(_, _)
IfScan(ni, depth) ==
    IF ni >= NumInstructions THEN ni
    ELSE
      LET d1 == IF OpAt(ni) = "IF" THEN depth + 1 ELSE depth
          d2 == IF d1 = 1 /\ OpAt(ni) = "ELSE" THEN d1 - 1 ELSE d1
          d3 == IF OpAt(ni) = "ENDIF" THEN d2 - 1 ELSE d2
      IN  IF d3 = 0 THEN ni ELSE IfScan(ni + 1, d3)

\* OPCODE_ELSE: the forward scan for the ENDIF that closes the block
RECURSIVE ElseScan(_, _)
ElseScan(ni, depth) ==
    IF ni >= NumInstructions THEN ni
    ELSE
      LET d1 == IF OpAt(ni) = "IF" THEN depth + 1 ELSE depth
          d2 == IF OpAt(ni) = "ENDIF" THEN d1 - 1 ELSE d1
      IN  IF d2 = 0 THEN ni ELSE ElseScan(ni + 1, d2)

-----------------------------------------------------------------------------
(* Instruction interpreter: State::GetNext *)

\* the early return of GetNext: nothing left to execute. nextInstruction is
\* compared as an unsigned size, so a negative index also ends execution.
AtEnd(ni) == ni < 0 \/ ni >= NumInstructions

\* State::Finished
Finished(st) == st.done \/ st.nextInstruction >= NumInstructions

\* a mutant of Advance: the pointer is not moved past a fetched mov
AdvanceStuck(ni) == IF program[ni + 1].operation = "MOV" THEN ni ELSE ni + 1

\* s.nextInstruction++
Advance(ni) == ni + 1

\* the instruction GetNext fetches
Fetched == GetInstruction(nextInstruction)

\* a mutant of Begin: the per-step reset also clears the done flag
BeginResetsDone ==
    [LaneState EXCEPT !.nextInstruction = Advance(@), !.flags = {},
                      !.modified = <<>>, !.done = FALSE]

\* State s = *this, after the per-step reset and the pointer increment
Begin ==
    [LaneState EXCEPT !.nextInstruction = Advance(@), !.flags = {},
                      !.modified = <<>>]

\* srcOpers: every operand but the first, read from the state GetNext was
\* called on
SrcOpers(op) ==
    [i \in 1..(Len(op.operands) - 1) |-> GetSrc(LaneState, op.operands[i + 1], op)]

\* return s : the caller's State becomes s, and the GlobalState is left as g
ReturnGlobal(s, g, how) ==
    /\ global' = g
    /\ globalIn' = global
    /\ nextInstruction' = s.nextInstruction
    /\ done' = s.done
    /\ flags' = s.flags
    /\ registers' = s.registers
    /\ indexableTemps' = s.indexableTemps
    /\ outputs' = s.outputs
    /\ modified' = s.modified
    /\ input' = LaneState
    /\ srcOpers' = IF how = "terminal" THEN <<>> ELSE SrcOpers(Fetched)
    /\ lastStep' = how
    /\ UNCHANGED <<program, quad, quadIndex, call>>

\* return s from a call that left the GlobalState alone
Return(s, how) == ReturnGlobal(s, global, how)

\* a mutant of StepTerminal: the terminal call also clears the event flags
StepTerminalClearsFlags ==
    /\ AtEnd(nextInstruction)
    /\ Return([LaneState EXCEPT !.modified = <<>>, !.flags = {}], "terminal")
    /\ UNCHANGED currentInstruction

\* GetNext at or past the end of the stream
StepTerminal ==
    /\ AtEnd(nextInstruction)
    /\ Return([LaneState EXCEPT !.modified = <<>>], "terminal")
    /\ UNCHANGED currentInstruction

\* the part every executing step shares
Executes(ops) ==
    /\ ~AtEnd(nextInstruction)
    /\ Fetched.operation \in ops
    /\ currentInstruction' = nextInstruction

\* OPCODE_MOV
StepMov ==
    /\ Executes({"MOV"})
    /\ Return(SetDst(Begin, Fetched.operands[1], Fetched, SrcOpers(Fetched)[1]), "step")

\* OPCODE_ADD / OPCODE_IADD
StepAdd ==
    /\ Executes({"ADD", "IADD"})
    /\ LET src == SrcOpers(Fetched)
       IN  Return(SetDst(Begin, Fetched.operands[1], Fetched,
                         add(src[1], src[2], OperationType(Fetched.operation))),
                  "step")

\* the results the math oracle may hand back for one component
OracleWords == {Float1, FloatDenormHalfMin}

\* OPCODE_RCP / RSQ / EXP / LOG: the oracle computes the result, or declines
StepMathIntrinsic ==
    /\ Executes({"RCP", "RSQ", "EXP", "LOG"})
    /\ \E ok \in BOOLEAN, w \in OracleWords :
          IF ok
          THEN Return(SetDst(Begin, Fetched.operands[1], Fetched,
                             Val(Splat(w), 4, "Float")), "step")
          ELSE Return(Begin, "declined")

\* SetDst unless the destination is null
SetDstUnlessNull(st, k, val) ==
    IF Fetched.operands[k].type # "NULL"
    THEN SetDst(st, Fetched.operands[k], Fetched, val)
    ELSE st

\* OPCODE_SINCOS: the oracle computes sine and cosine, or declines
StepSinCos ==
    /\ Executes({"SINCOS"})
    /\ \E ok \in BOOLEAN, a \in OracleWords, b \in OracleWords :
          IF ok
          THEN Return(SetDstUnlessNull(
                          SetDstUnlessNull(Begin, 1, Val(Splat(a), 4, "Float")),
                          2, Val(Splat(b), 4, "Float")),
                      "step")
          ELSE Return(Begin, "declined")

\* the texels the sampling oracle may hand back
OracleTexels == {Vec4(Float1, Float2, Float3, Float4), Splat(FloatDenormHalfMin)}

\* OPCODE_SAMPLE_L: the oracle samples the texture, or declines
StepSample ==
    /\ Executes({"SAMPLE_L"})
    /\ \E ok \in BOOLEAN, texel \in OracleTexels :
          LET s0 == [Begin EXCEPT !.flags = {"SampleLoadGather"}]
              comps == Fetched.operands[1].comps
              lookupResult == IF comps[2] = NoComp
                              THEN [texel EXCEPT ![1] = texel[comps[1] + 1]]
                              ELSE texel
          IN  IF ok
              THEN Return(SetDst(s0, Fetched.operands[1], Fetched,
                                 Val(lookupResult, 4, "Float")), "step")
              ELSE Return(s0, "declined")

\* unsigned a >= b
WordGeq(a, b) == a[1] > b[1] \/ (a[1] = b[1] /\ a[2] >= b[2])

\* a - b in uint32_t
WordSub(a, b) == WordAdd(a, WordNeg(b))

\* the product of two 16-bit halves, as a word
MulHalf(x, y) ==
    LET p1 == (x \div 256) * y
        p0 == (x % 256) * y
    IN  WordAdd(<<p1 \div 256, (p1 % 256) * 256>>, W(p0))

\* the 64-bit product of two words, as <<high word, low word>>
WordMulWide(a, b) ==
    LET p00 == MulHalf(a[2], b[2])
        p01 == MulHalf(a[2], b[1])
        p10 == MulHalf(a[1], b[2])
        p11 == MulHalf(a[1], b[1])
        t1 == p00[1] + p01[2] + p10[2]
        t2 == (t1 \div Half) + p01[1] + p10[1] + p11[2]
        t3 == (t2 \div Half) + p11[1]
    IN  <<(<<t3 % Half, t2 % Half>>), (<<t1 % Half, p00[2]>>)>>

\* a * b in uint32_t
WordMul(a, b) == WordMulWide(a, b)[2]

\* a / b in uint32_t for b # 0: short division by a 16-bit divisor, and for
\* a wider divisor the one 16-bit quotient q with q * b <= a < (q + 1) * b,
\* which lies between a.hi / (b.hi + 1) and a.hi / b.hi
WordDiv(a, b) ==
    IF b[1] = 0
    THEN LET t1 == (a[1] % b[2]) * 256 + (a[2] \div 256)
             t0 == (t1 % b[2]) * 256 + (a[2] % 256)
         IN  <<a[1] \div b[2], (t1 \div b[2]) * 256 + (t0 \div b[2])>>
    ELSE <<0, CHOOSE q \in (a[1] \div (b[1] + 1))..(a[1] \div b[1]) :
                 LET p == WordMulWide(<<0, q>>, b)
                 IN  /\ p[1] = Zero32
                     /\ WordGeq(a, p[2])
                     /\ ~WordGeq(WordSub(a, p[2]), b)>>

\* a mutant of UDivComp: a zero divisor yields zero
UDivCompZero(a, b) ==
    IF b # Zero32
    THEN LET quot == WordDiv(a, b)
         IN  <<quot, WordSub(a, WordMul(quot, b))>>
    ELSE <<Zero32, Zero32>>

\* one component of udiv: <<quot, rem>>, both preset to 0xffffffff
UDivComp(a, b) ==
    IF b # Zero32
    THEN LET quot == WordDiv(a, b)
         IN  <<quot, WordSub(a, WordMul(quot, b))>>
    ELSE <<MinusOne32, MinusOne32>>

\* OPCODE_UDIV
StepUDiv ==
    /\ Executes({"UDIV"})
    /\ LET src == SrcOpers(Fetched)
           qr == [i \in 1..4 |-> UDivComp(src[2].uv[i], src[3].uv[i])]
           quot == Val([i \in 1..4 |-> qr[i][1]], 4, "UInt")
           rem == Val([i \in 1..4 |-> qr[i][2]], 4, "UInt")
       IN  Return(SetDstUnlessNull(SetDstUnlessNull(Begin, 1, quot), 2, rem), "step")

\* a uint64_t as <<high word, low word>>
Wide(w) == <<Zero32, w>>

\* OPCODE_UADDC: src[] is filled from srcOpers[1] and then overwritten from
\* srcOpers[2]
StepUAddC ==
    /\ Executes({"UADDC"})
    /\ LET so == SrcOpers(Fetched)
           first == [i \in 1..4 |-> Wide(so[2].uv[i])]
           src == [i \in 1..4 |-> Wide(so[3].uv[i])]
           dst == Val([i \in 1..4 |-> src[i][2]], 4, "UInt")
           carry == Val([i \in 1..4 |-> IF src[i][1] # Zero32 THEN One32 ELSE Zero32],
                        4, "UInt")
       IN  Return(SetDstUnlessNull(SetDst(Begin, Fetched.operands[1], Fetched, dst),
                                   2, carry), "step")

\* (0x100000000 | a) - b in uint64_t
BorrowSub(a, b) ==
    <<(IF WordGeq(a, b) THEN One32 ELSE Zero32), WordSub(a, b)>>

\* OPCODE_USUBB: every dst[i] is taken from result[0]
StepUSubB ==
    /\ Executes({"USUBB"})
    /\ LET so == SrcOpers(Fetched)
           result == [i \in 1..4 |-> BorrowSub(so[2].uv[i], so[3].uv[i])]
           dst == Val([i \in 1..4 |-> result[1][2]], 4, "UInt")
           borrow == Val([i \in 1..4 |-> IF result[i][1] = Zero32 THEN One32 ELSE Zero32],
                         4, "UInt")
       IN  Return(SetDstUnlessNull(SetDst(Begin, Fetched.operands[1], Fetched, dst),
                                   2, borrow), "step")

\* the GlobalState::ViewFmt of the views of the model: 32-bit components
ViewFmt(numComps) == [byteWidth |-> 4, numComps |-> numComps, fmt |-> "UInt"]

\* dxbc->GetDeclaration(i): u0 is a raw view, u2 and t1 are structured
Declarations ==
    <<[declaration |-> "DCL_UNORDERED_ACCESS_VIEW_RAW",
       type |-> "UNORDERED_ACCESS_VIEW", index |-> 0, stride |-> 0],
      [declaration |-> "DCL_UNORDERED_ACCESS_VIEW_STRUCTURED",
       type |-> "UNORDERED_ACCESS_VIEW", index |-> 2, stride |-> 8],
      [declaration |-> "DCL_RESOURCE_STRUCTURED",
       type |-> "RESOURCE", index |-> 1, stride |-> 8]>>

\* a word as a byte distance; every distance of 2^16 or more lies past the
\* end of the buffers of the model
ByteDistance(w) == IF w[1] = 0 THEN w[2] ELSE Half

\* byte j (0..3) of a word, little endian
WordByte(w, j) ==
    IF j = 0 THEN w[2] % 256
    ELSE IF j = 1 THEN w[2] \div 256
    ELSE IF j = 2 THEN w[1] % 256
    ELSE w[1] \div 256

\* *(uint32_t *)(data + at); past the end of the data the read is undefined
\* and yields junk
ReadWord(data, at, junk) ==
    IF at + 4 <= Len(data)
    THEN <<data[at + 4] * 256 + data[at + 3], data[at + 2] * 256 + data[at + 1]>>
    ELSE junk

\* *(uint32_t *)(data + at) = w; bytes past the end of the data land outside
\* the buffer
WriteWord(data, at, w) ==
    [k \in 1..Len(data) |->
        IF k - 1 \in at..(at + 3) THEN WordByte(w, k - 1 - at) ELSE data[k]]

\* what an undefined read may yield
JunkWords == {Zero32, MinusOne32}

\* TypedUAVLoad for fmt.byteWidth == 4
TypedUAVLoad(fmt, data, at, junk) ==
    Val([c \in 1..4 |-> IF c <= fmt.numComps
                        THEN ReadWord(data, at + 4 * (c - 1), junk[c])
                        ELSE Zero32],
        4, "Float")

\* TypedUAVStore for fmt.byteWidth == 4
TypedUAVStore(fmt, data, at, var) ==
    [k \in 1..Len(data) |->
        IF k - 1 \in at..(at + 4 * fmt.numComps - 1)
        THEN WordByte(var.uv[((k - 1 - at) \div 4) + 1], (k - 1 - at) % 4)
        ELSE data[k]]

\* the stride a structured load or store finds in the declarations
DeclaredStride(srv, resIndex) ==
    LET hits == {i \in 1..Len(Declarations) :
                    /\ Declarations[i].index = resIndex
                    /\ \/ /\ Declarations[i].type = "UNORDERED_ACCESS_VIEW"
                          /\ ~srv
                          /\ Declarations[i].declaration
                                = "DCL_UNORDERED_ACCESS_VIEW_STRUCTURED"
                       \/ /\ Declarations[i].type = "RESOURCE"
                          /\ srv
                          /\ Declarations[i].declaration = "DCL_RESOURCE_STRUCTURED"}
    IN  IF hits = {} THEN 0
        ELSE Declarations[CHOOSE i \in hits : \A j \in hits : i <= j].stride

\* the raw or structured declaration an atomic finds for a view, if any
DeclaredUAV(resIndex) ==
    LET hits == {i \in 1..Len(Declarations) :
                    /\ Declarations[i].type = "UNORDERED_ACCESS_VIEW"
                    /\ Declarations[i].index = resIndex
                    /\ Declarations[i].declaration
                          \in {"DCL_UNORDERED_ACCESS_VIEW_RAW",
                               "DCL_UNORDERED_ACCESS_VIEW_STRUCTURED"}}
    IN  IF hits = {} THEN [stride |-> 4, structured |-> FALSE]
        ELSE LET d == Declarations[CHOOSE i \in hits : \A j \in hits : i <= j]
             IN  IF d.declaration = "DCL_UNORDERED_ACCESS_VIEW_RAW"
                 THEN [stride |-> 4, structured |-> FALSE]
                 ELSE [stride |-> d.stride, structured |-> TRUE]

\* a mutant of StepAlloc: the counter is incremented before it is read
StepAllocPreIncrement ==
    /\ Executes({"IMM_ATOMIC_ALLOC"})
    /\ LET slot == SrcOpers(Fetched)[1].uv[1][2] + 1
           count == WordAdd(global.uavs[slot].hiddenCounter, One32)
       IN  ReturnGlobal(SetDst(Begin, Fetched.operands[1], Fetched,
                               Val(Splat(count), 4, "UInt")),
                        [global EXCEPT !.uavs[slot].hiddenCounter = count],
                        "step")

\* a mutant of StepAlloc: the increment is lost to the other lanes
StepAllocUnshared ==
    /\ Executes({"IMM_ATOMIC_ALLOC"})
    /\ LET slot == SrcOpers(Fetched)[1].uv[1][2] + 1
           count == global.uavs[slot].hiddenCounter
       IN  ReturnGlobal(SetDst(Begin, Fetched.operands[1], Fetched,
                               Val(Splat(count), 4, "UInt")),
                        global, "step")

\* OPCODE_IMM_ATOMIC_ALLOC: count = hiddenCounter++
StepAlloc ==
    /\ Executes({"IMM_ATOMIC_ALLOC"})
    /\ LET slot == SrcOpers(Fetched)[1].uv[1][2] + 1
           count == global.uavs[slot].hiddenCounter
       IN  ReturnGlobal(SetDst(Begin, Fetched.operands[1], Fetched,
                               Val(Splat(count), 4, "UInt")),
                        [global EXCEPT !.uavs[slot].hiddenCounter =
                                           WordAdd(count, One32)],
                        "step")

\* OPCODE_IMM_ATOMIC_CONSUME: count = --hiddenCounter
StepConsume ==
    /\ Executes({"IMM_ATOMIC_CONSUME"})
    /\ LET slot == SrcOpers(Fetched)[1].uv[1][2] + 1
           count == WordAdd(global.uavs[slot].hiddenCounter, MinusOne32)
       IN  ReturnGlobal(SetDst(Begin, Fetched.operands[1], Fetched,
                               Val(Splat(count), 4, "UInt")),
                        [global EXCEPT !.uavs[slot].hiddenCounter = count],
                        "step")

\* what global.groupshared[size] may yield, the element one past the end of
\* the vector: a region without elements, or one with elements of its own
StrayRegions ==
    {[structured |-> FALSE, bytestride |-> 4, count |-> 0, data |-> <<>>],
     [structured |-> FALSE, bytestride |-> 4, count |-> 2,
      data |-> <<239, 190, 173, 222, 13, 240, 173, 11>>]}

\* global.groupshared[resIndex] for resIndex <= size
SharedAt(g, resIndex, stray) ==
    IF resIndex < Len(g.groupshared) THEN g.groupshared[resIndex + 1] ELSE stray

\* the word an atomic addresses, and whether it may touch it
AtomicAccess(op, so, g, finished, stray) ==
    LET imm == op.operation = "IMM_ATOMIC_IADD"
        resOper == IF imm THEN op.operands[2] ELSE op.operands[1]
        resIndex == resOper.indices[1].index
        gsm == resOper.type = "THREAD_GROUP_SHARED_MEMORY"
        dstAddress == IF imm THEN so[2] ELSE so[1]
        hasData == ~(gsm /\ resIndex > Len(g.groupshared))
        shared == SharedAt(g, resIndex, stray)
        uav == g.uavs[resIndex + 1]
        decl == DeclaredUAV(resIndex)
        numElems == IF gsm THEN (IF hasData THEN shared.count ELSE 0)
                    ELSE uav.numElements
        stride == IF gsm THEN (IF hasData THEN shared.bytestride ELSE 4)
                  ELSE decl.stride
        structured == IF gsm THEN hasData /\ shared.structured
                      ELSE decl.structured
        elem == WordAdd(W(IF gsm THEN 0 ELSE uav.firstElement), dstAddress.uv[1])
    IN  [imm |-> imm, gsm |-> gsm, resIndex |-> resIndex,
         inBounds |-> hasData /\ WordLess(elem, numElems) /\ ~finished,
         data |-> IF gsm THEN (IF hasData THEN shared.data ELSE <<>>) ELSE uav.data,
         at |-> elem[2] * stride
                + (IF structured THEN ByteDistance(dstAddress.uv[2]) ELSE 0),
         src0 |-> IF imm THEN so[3] ELSE so[2]]

\* the GlobalState after *udst = *udst + *usrc0
AtomicAdd(g, acc, udst) ==
    LET written == WriteWord(acc.data, acc.at, WordAdd(udst, acc.src0.uv[1]))
    IN  IF ~acc.inBounds THEN g
        ELSE IF acc.gsm
        THEN (IF acc.resIndex < Len(g.groupshared)
              THEN [g EXCEPT !.groupshared[acc.resIndex + 1].data = written]
              ELSE g)
        ELSE [g EXCEPT !.uavs[acc.resIndex + 1].data = written]

\* OPCODE_ATOMIC_IADD / OPCODE_IMM_ATOMIC_IADD: the immediate form hands the
\* word it found to its destination
AtomicStep(acc, udst) ==
    ReturnGlobal(IF acc.inBounds /\ acc.imm
                 THEN SetDstUnlessNull(Begin, 1, Val(Splat(udst), 4, "UInt"))
                 ELSE Begin,
                 AtomicAdd(global, acc, udst), "step")

\* the atomic reads the word it addresses; out of bounds nothing is read
AtomicRun(acc, junk) ==
    AtomicStep(acc, IF acc.inBounds THEN ReadWord(acc.data, acc.at, junk) ELSE junk)

\* State::GetNext, the atomics
StepAtomic ==
    /\ Executes({"ATOMIC_IADD", "IMM_ATOMIC_IADD"})
    /\ \E junk \in JunkWords, stray \in StrayRegions :
          AtomicRun(AtomicAccess(Fetched, SrcOpers(Fetched), global,
                                 Finished(LaneState), stray), junk)

LoadOps == {"LD_RAW", "LD_UAV_TYPED", "LD_STRUCTURED"}
StoreOps == {"STORE_RAW", "STORE_UAV_TYPED", "STORE_STRUCTURED"}

\* a mutant of LoadOutOfRange: the index one past the last element and the
\* offset one past the last byte count as in range
LoadOutOfRangeLate(hasData, texData, elemIdx, numElems, texOffset, size) ==
    \/ ~hasData
    \/ ~texData /\ ~WordLess(elemIdx, numElems + 1)
    \/ texData /\ texOffset > size

\* the test that sends a load or store down the out-of-range path
LoadOutOfRange(hasData, texData, elemIdx, numElems, texOffset, size) ==
    \/ ~hasData
    \/ ~texData /\ ~WordLess(elemIdx, numElems)
    \/ texData /\ texOffset >= size

\* the view a load or store names, and where in it the access falls
LoadStoreAccess(op, so, g, stray) ==
    LET load == op.operation \in LoadOps
        isStructured == op.operation \in {"LD_STRUCTURED", "STORE_STRUCTURED"}
        isTyped == op.operation \in {"LD_UAV_TYPED", "STORE_UAV_TYPED"}
        isRaw == op.operation \in {"LD_RAW", "STORE_RAW"}
        resOper == IF ~load THEN op.operands[1]
                   ELSE IF isStructured THEN op.operands[4]
                   ELSE op.operands[3]
        resIndex == resOper.indices[1].index
        srv == ~isTyped /\ load /\ resOper.type = "RESOURCE"
        gsm == resOper.type = "THREAD_GROUP_SHARED_MEMORY"
        hasData == ~(gsm /\ resIndex > Len(g.groupshared))
        shared == SharedAt(g, resIndex, stray)
        view == IF srv THEN g.srvs[resIndex + 1] ELSE g.uavs[resIndex + 1]
        opStride == IF load THEN op.stride ELSE 0
        stride0 == IF isTyped THEN 4
                   ELSE IF isRaw THEN 1
                   ELSE IF opStride # 0 THEN opStride
                   ELSE IF gsm /\ resIndex < Len(g.groupshared)
                   THEN shared.bytestride
                   ELSE IF ~gsm THEN DeclaredStride(srv, resIndex)
                   ELSE 0
        elemOffset == IF isStructured THEN ByteDistance(so[2].uv[1]) ELSE 0
        scale == IF isRaw THEN (IF view.format.byteWidth < 4
                                THEN view.format.byteWidth ELSE 4)
                 ELSE 1
        stride == IF gsm THEN (IF hasData THEN shared.bytestride ELSE 4)
                  ELSE stride0
        fmt == IF gsm /\ hasData THEN ViewFmt(shared.bytestride \div 4)
               ELSE view.format
        texData == ~gsm /\ ~srv /\ view.tex
    IN  [load |-> load, gsm |-> gsm, resIndex |-> resIndex, hasData |-> hasData,
         texData |-> texData, fmt |-> fmt, stride |-> stride,
         elemIdx |-> so[1].uv[1], elemOffset |-> elemOffset,
         offset |-> IF gsm THEN 0 ELSE view.firstElement * scale,
         numElems |-> IF gsm THEN (IF hasData THEN shared.count ELSE 0)
                      ELSE view.numElements * scale,
         data |-> IF gsm THEN (IF hasData THEN shared.data ELSE <<>>)
                  ELSE view.data,
         size |-> Len(g.uavs[resIndex + 1].data),
         texOffset |-> IF texData
                       THEN ByteDistance(so[1].uv[1]) * fmt.byteWidth * fmt.numComps
                            + ByteDistance(so[1].uv[2]) * view.rowPitch
                            + ByteDistance(so[1].uv[3]) * view.depthPitch
                       ELSE 0,
         maxIndex |-> IF isRaw THEN 4
                      ELSE IF isStructured
                      THEN (IF elemOffset <= stride
                            THEN (stride - elemOffset) \div 4 ELSE Half)
                      ELSE fmt.numComps,
         src |-> IF load THEN so[1] ELSE IF isStructured THEN so[3] ELSE so[2]]

\* the byte the access starts at
AccessAt(acc) ==
    IF acc.gsm \/ ~acc.texData
    THEN (acc.offset + acc.elemIdx[2]) * acc.stride + acc.elemOffset
    ELSE acc.texOffset

\* the value an in-range load hands to SetDst: into a scalar destination the
\* fetched component is propagated to x
LoadFetch(acc, comps, junk) ==
    LET fetch == TypedUAVLoad(acc.fmt, acc.data, AccessAt(acc), junk)
    IN  IF comps[1] # NoComp /\ (\A i \in 2..4 : comps[i] = NoComp)
        THEN [fetch EXCEPT !.uv[1] = fetch.uv[comps[1] + 1]]
        ELSE fetch

\* the GlobalState after an in-range store
StoreInto(g, acc) ==
    LET written == TypedUAVStore(acc.fmt, acc.data, AccessAt(acc), acc.src)
    IN  IF acc.gsm
        THEN (IF acc.resIndex < Len(g.groupshared)
              THEN [g EXCEPT !.groupshared[acc.resIndex + 1].data = written]
              ELSE g)
        ELSE [g EXCEPT !.uavs[acc.resIndex + 1].data = written]

\* the value a load hands to SetDst
LoadValue(acc, comps, junk) ==
    IF LoadOutOfRange(acc.hasData, acc.texData, acc.elemIdx, acc.numElems,
                      acc.texOffset, acc.size)
    THEN Val(Splat(Zero32), 4, "UInt")
    ELSE LoadFetch(acc, comps, junk)

\* the GlobalState a store leaves
StoreResult(g, acc, comps, finished) ==
    IF /\ ~LoadOutOfRange(acc.hasData, acc.texData, acc.elemIdx, acc.numElems,
                          acc.texOffset, acc.size)
       /\ ~finished
       /\ comps[1] # NoComp
       /\ comps[1] < acc.maxIndex
    THEN StoreInto(g, acc)
    ELSE g

\* OPCODE_LD_RAW / LD_UAV_TYPED / LD_STRUCTURED
StepLoad ==
    /\ Executes(LoadOps)
    /\ \E junk \in [1..4 -> JunkWords], stray \in StrayRegions :
          Return(SetDst([Begin EXCEPT !.flags = {"SampleLoadGather"}],
                        Fetched.operands[1], Fetched,
                        LoadValue(LoadStoreAccess(Fetched, SrcOpers(Fetched), global,
                                                  stray),
                                  Fetched.operands[1].comps, junk)),
                 "step")

\* OPCODE_STORE_RAW / STORE_UAV_TYPED / STORE_STRUCTURED
StepStore ==
    /\ Executes(StoreOps)
    /\ \E stray \in StrayRegions :
          ReturnGlobal(Begin,
                       StoreResult(global,
                                   LoadStoreAccess(Fetched, SrcOpers(Fetched), global,
                                                   stray),
                                   Fetched.operands[1].comps, Finished(LaneState)),
                       "step")

DerivXOps == {"DERIV_RTX", "DERIV_RTX_COARSE", "DERIV_RTX_FINE"}
DerivYOps == {"DERIV_RTY", "DERIV_RTY_COARSE", "DERIV_RTY_FINE"}

\* the quad argument of GetNext: the caller's array, the slot of the lane it
\* works on holding that lane's State
QuadArg == IF quad = <<>> THEN <<>> ELSE [quad EXCEPT ![quadIndex + 1] = LaneState]

\* a mutant of DDX: the coarse derivative is taken from the executing lane's
\* own row
DDXOwnRow(fine, q, qi, oper, op) ==
    IF qi % 2 = 0
    THEN sub(GetSrc(q[qi + 2], oper, op), GetSrc(q[qi + 1], oper, op),
             OperationType(op.operation))
    ELSE sub(GetSrc(q[qi + 1], oper, op), GetSrc(q[qi], oper, op),
             OperationType(op.operation))

\* State::DDX of the lane with quadIndex qi
DDX(fine, q, qi, oper, op) ==
    IF ~fine
    THEN sub(GetSrc(q[2], oper, op), GetSrc(q[1], oper, op),
             OperationType(op.operation))
    ELSE IF qi % 2 = 0
    THEN sub(GetSrc(q[qi + 2], oper, op), GetSrc(q[qi + 1], oper, op),
             OperationType(op.operation))
    ELSE sub(GetSrc(q[qi + 1], oper, op), GetSrc(q[qi], oper, op),
             OperationType(op.operation))

\* State::DDY of the lane with quadIndex qi
DDY(fine, q, qi, oper, op) ==
    IF ~fine
    THEN sub(GetSrc(q[3], oper, op), GetSrc(q[1], oper, op),
             OperationType(op.operation))
    ELSE IF qi \div 2 = 0
    THEN sub(GetSrc(q[qi + 3], oper, op), GetSrc(q[qi + 1], oper, op),
             OperationType(op.operation))
    ELSE sub(GetSrc(q[qi + 1], oper, op), GetSrc(q[qi - 1], oper, op),
             OperationType(op.operation))

\* what the derivative instruction op hands to SetDst
Derivative(op, q, qi) ==
    IF op.operation \in DerivXOps
    THEN DDX(op.operation = "DERIV_RTX_FINE", q, qi, op.operands[2], op)
    ELSE DDY(op.operation = "DERIV_RTY_FINE", q, qi, op.operands[2], op)

\* a mutant of StepDeriv: without a quad the destination is zeroed
StepDerivZeroed ==
    /\ Executes(DerivXOps \cup DerivYOps)
    /\ Return(SetDst(Begin, Fetched.operands[1], Fetched,
                     IF quad = <<>> THEN Val(Splat(Zero32), 4, "Float")
                     ELSE Derivative(Fetched, QuadArg, quadIndex)), "step")

\* OPCODE_DERIV_RTX* / OPCODE_DERIV_RTY*: without a quad the error is
\* reported and nothing is written
StepDeriv ==
    /\ Executes(DerivXOps \cup DerivYOps)
    /\ IF quad = <<>>
       THEN Return(Begin, "step")
       ELSE Return(SetDst(Begin, Fetched.operands[1], Fetched,
                          Derivative(Fetched, QuadArg, quadIndex)), "step")

\* the caller turns to another lane of its array: the State of the lane it
\* worked on goes back to its slot and the next call is made on lane k
Schedule ==
    /\ quad # <<>>
    /\ \E k \in 0..(Len(quad) - 1) :
          /\ k # quadIndex
          /\ quad' = QuadArg
          /\ quadIndex' = k
          /\ nextInstruction' = quad[k + 1].nextInstruction
          /\ done' = quad[k + 1].done
          /\ flags' = quad[k + 1].flags
          /\ registers' = quad[k + 1].registers
          /\ indexableTemps' = quad[k + 1].indexableTemps
          /\ outputs' = quad[k + 1].outputs
          /\ modified' = quad[k + 1].modified
          /\ input' = quad[k + 1]
          /\ globalIn' = global
          /\ srcOpers' = <<>>
          /\ lastStep' = "init"
          /\ UNCHANGED <<program, global, currentInstruction, call>>

\* the interpreter's variables, which a helper call leaves alone
machine == <<program, nextInstruction, done, flags, registers, indexableTemps,
             outputs, modified, currentInstruction, global, quad, quadIndex,
             input, globalIn, srcOpers, lastStep>>

\* no helper has been called
NoCall == [fn |-> "none", kind |-> "none", args |-> <<>>, result |-> <<>>]

\* a helper function is about to be called on args
Pending(kind) == call.fn = "input" /\ call.kind = kind

\* the helper fn returned result
Returned(fn, result) ==
    /\ call' = [call EXCEPT !.fn = fn, !.result = result]
    /\ UNCHANGED machine

\* flush_denorm(f)
CallFlushDenorm ==
    /\ Pending("word")
    /\ Returned("flush_denorm", flush_denorm(call.args[1]))

\* sat(v, VarType::Float), v holding the word in every component
CallSat ==
    /\ Pending("word")
    /\ Returned("sat", sat(Val(Splat(call.args[1]), 4, "Float"), "Float").uv)

\* dxbc_min(a, b)
CallMin ==
    /\ Pending("pair")
    /\ Returned("dxbc_min", dxbc_min(call.args[1], call.args[2]))

\* dxbc_max(a, b)
CallMax ==
    /\ Pending("pair")
    /\ Returned("dxbc_max", dxbc_max(call.args[1], call.args[2]))

\* OperationType(op) and OperationFlushing(op)
CallClassify ==
    /\ Pending("opcode")
    /\ Returned("classify",
                <<OperationType(call.args[1]), OperationFlushing(call.args[1])>>)

\* GetSrc, TYPE_IMMEDIATE_CONSTANT_BUFFER: s starts as zeros; when
\* indices[0] <= m_Immediate.size() / 4 - 1, compared unsigned (size / 4 - 1
\* wraps to the greatest value when size < 4), the four words from word
\* indices[0] * 4 (a uint32_t product) are copied over it. A word read past
\* the stored ones is whatever lies there.
ImmediateConstantBuffer(immediate, idx0, junk) ==
    LET vecs == Len(immediate) \div 4
        first == WordShl(idx0, 2)
        word(j) == IF first[1] = 0 /\ first[2] + j <= Len(immediate)
                   THEN immediate[first[2] + j] ELSE junk[j]
    IN  IF vecs = 0 \/ WordLess(idx0, vecs)
        THEN Val([j \in 1..4 |-> word(j)], 4, "Int")
        ELSE Val(Splat(Zero32), 4, "Int")

\* GetSrc of an immediate-constant-buffer operand: the lookup, then swizzle,
\* modifier and flush as for every operand
GetSrcImmediate(st, immediate, oper, op, junk) ==
    FlushSrc(ModifySrc(SwizzleSrc(ImmediateConstantBuffer(
                                      immediate, ResolveIndices(st, oper, op)[1],
                                      junk),
                                  oper.comps),
                       oper.modifier, OperationType(op.operation)),
             OperationFlushing(op.operation))

\* GetSrc(oper, op) for an operand of a mov that names the immediate constant
\* buffer call.args[1]
CallGetSrc ==
    /\ Pending("icb")
    /\ \E junk \in [1..4 -> JunkWords] :
          Returned("GetSrc",
                   GetSrcImmediate(LaneState, call.args[1], call.args[2],
                                   Instr("MOV", <<NoOperand, call.args[2]>>), junk))

\* a mutant of PlaceByMask: the results are packed into components x and y
PlaceByMaskPacked(comps, first, second) ==
    Val(<<first, second, Zero32, Zero32>>, 4, "UInt")

\* ShaderVariable r("", 0U, 0U, 0U, 0U) with the results of a double op put
\* at the destination's first and second selected components (comps[0] is
\* always a component for these instructions)
PlaceByMask(comps, first, second) ==
    LET r0 == [Splat(Zero32) EXCEPT ![comps[1] + 1] = first]
    IN  Val(IF comps[2] = NoComp THEN r0 ELSE [r0 EXCEPT ![comps[2] + 1] = second],
            4, "UInt")

\* the narrow result of one double for OPCODE_DTOU / DTOI / DTOF
ConvertDouble(operation, d, u) ==
    CASE operation = "DTOU" -> DoubleToUInt(d, u)
      [] operation = "DTOI" -> DoubleToSInt(d, u)
      [] operation = "DTOF" -> DoubleToFloat(d)

\* OPCODE_DTOI / DTOU / DTOF
StepDoubleConvert ==
    /\ Executes({"DTOI", "DTOU", "DTOF"})
    /\ \E u1 \in UndefinedConversions, u2 \in UndefinedConversions :
          LET src == DoubleGet(SrcOpers(Fetched)[1])
              r == PlaceByMask(Fetched.operands[1].comps,
                               ConvertDouble(Fetched.operation, src[1], u1),
                               ConvertDouble(Fetched.operation, src[2], u2))
          IN  Return(SetDst(Begin, Fetched.operands[1], Fetched, r), "step")

\* cmp1 / cmp2 of OPCODE_DEQ / DNE / DGE / DLT: ~0 when the comparison holds
CompareDouble(operation, a, b) ==
    LET holds == CASE operation = "DEQ" -> DoubleEq(a, b)
                   [] operation = "DNE" -> ~DoubleEq(a, b)
                   [] operation = "DGE" -> DoubleGreaterEq(a, b)
                   [] operation = "DLT" -> DoubleLess(a, b)
    IN  IF holds THEN MinusOne32 ELSE Zero32

\* OPCODE_DEQ / DNE / DGE / DLT
StepDoubleCompare ==
    /\ Executes({"DEQ", "DNE", "DGE", "DLT"})
    /\ LET src0 == DoubleGet(SrcOpers(Fetched)[1])
           src1 == DoubleGet(SrcOpers(Fetched)[2])
           r == PlaceByMask(Fetched.operands[1].comps,
                            CompareDouble(Fetched.operation, src0[1], src1[1]),
                            CompareDouble(Fetched.operation, src0[2], src1[2]))
       IN  Return(SetDst(Begin, Fetched.operands[1], Fetched, r), "step")

\* the shift of one component; a left shift of an int32_t is taken as the
\* two's-complement result every build produces
ShiftComp(operation, x, n) ==
    CASE operation = "ISHL" -> WordShl(x, n)
      [] operation = "USHR" -> WordShr(x, n)
      [] OTHER -> WordSar(x, n)

\* shifts[]: the low 5 bits of each component of the second source, all
\* replaced by shifts[0] when the operand has one component
ShiftAmounts(shiftOper, src1) ==
    LET single == \/ shiftOper.numComponents = 1
                  \/ shiftOper.comps[3] < 4 /\ shiftOper.comps[3] = NoComp
    IN  [i \in 1..4 |-> src1.uv[IF single THEN 1 ELSE i][2] % 32]

\* the ShaderVariable handed to SetDst: int components for ISHL and ISHR,
\* uint32_t components for USHR
ShiftValue(op, src0, shifts) ==
    Val([i \in 1..4 |-> ShiftComp(op.operation, src0.uv[i], shifts[i])], 4,
        IF op.operation = "USHR" THEN "UInt" ELSE "SInt")

\* OPCODE_ISHL / USHR / ISHR
StepShift ==
    /\ Executes({"ISHL", "USHR", "ISHR"})
    /\ LET src == SrcOpers(Fetched)
       IN  Return(SetDst(Begin, Fetched.operands[1], Fetched,
                         ShiftValue(Fetched, src[1],
                                    ShiftAmounts(Fetched.operands[3], src[2]))),
                  "step")

\* a mutant of StepLabel: a label is executed without moving the pointer
StepLabelHolds ==
    /\ Executes({"CASE", "DEFAULT", "LOOP", "ENDSWITCH", "ENDIF", "NOP"})
    /\ Return([Begin EXCEPT !.nextInstruction = nextInstruction], "step")

\* OPCODE_CASE / DEFAULT / LOOP / ENDSWITCH / ENDIF, and NOP: nothing to do
StepLabel ==
    /\ Executes({"CASE", "DEFAULT", "LOOP", "ENDSWITCH", "ENDIF", "NOP"})
    /\ Return(Begin, "step")

\* OPCODE_SWITCH
StepSwitch ==
    /\ Executes({"SWITCH"})
    /\ LET switchValue == GetSrc(LaneState, Fetched.operands[1], Fetched).uv[1]
       IN  Return([Begin EXCEPT !.nextInstruction =
                        SwitchTarget(LaneState, Begin.nextInstruction, switchValue)],
                  "step")

\* OPCODE_CONTINUE / CONTINUEC / ENDLOOP
StepLoopBack ==
    /\ Executes({"CONTINUE", "CONTINUEC", "ENDLOOP"})
    /\ LET test == IF Fetched.operation = "CONTINUEC"
                   THEN GetSrc(LaneState, Fetched.operands[1], Fetched).uv[1]
                   ELSE Zero32
           depth == IF Fetched.operation \in {"CONTINUE", "CONTINUEC"} THEN 1 ELSE 0
       IN  IF \/ TestPasses(test, Fetched.nonzero)
              \/ Fetched.operation \in {"CONTINUE", "ENDLOOP"}
           THEN Return([Begin EXCEPT !.nextInstruction =
                            LoopBackScan(Begin.nextInstruction - 1, depth)], "step")
           ELSE Return(Begin, "step")

\* OPCODE_BREAK / BREAKC
StepBreak ==
    /\ Executes({"BREAK", "BREAKC"})
    /\ LET test == IF Fetched.operation = "BREAKC"
                   THEN GetSrc(LaneState, Fetched.operands[1], Fetched).uv[1]
                   ELSE Zero32
       IN  IF TestPasses(test, Fetched.nonzero) \/ Fetched.operation = "BREAK"
           THEN Return([Begin EXCEPT !.nextInstruction =
                            BreakScan(Begin.nextInstruction, 1) + 1], "step")
           ELSE Return(Begin, "step")

\* OPCODE_IF
StepIf ==
    /\ Executes({"IF"})
    /\ LET test == GetSrc(LaneState, Fetched.operands[1], Fetched).uv[1]
       IN  IF TestPasses(test, Fetched.nonzero)
           THEN Return(Begin, "step")
           ELSE Return([Begin EXCEPT !.nextInstruction =
                            IfScan(Begin.nextInstruction - 1, 0) + 1], "step")

\* OPCODE_ELSE
StepElse ==
    /\ Executes({"ELSE"})
    /\ Return([Begin EXCEPT !.nextInstruction =
                   ElseScan(Begin.nextInstruction, 1) + 1], "step")

\* OPCODE_DISCARD
StepDiscard ==
    /\ Executes({"DISCARD"})
    /\ LET test == GetSrc(LaneState, Fetched.operands[1], Fetched).uv[1]
       IN  IF (test # Zero32 /\ ~Fetched.nonzero) \/ (test = Zero32 /\ Fetched.nonzero)
           THEN Return(Begin, "step")
           ELSE Return([Begin EXCEPT !.done = TRUE], "step")

\* OPCODE_RET / RETC
StepRet ==
    /\ Executes({"RET", "RETC"})
    /\ LET test == IF Fetched.operation = "RETC"
                   THEN GetSrc(LaneState, Fetched.operands[1], Fetched).uv[1]
                   ELSE Zero32
       IN  IF TestPasses(test, Fetched.nonzero) \/ Fetched.operation = "RET"
           THEN Return([Begin EXCEPT !.done = TRUE], "step")
           ELSE Return(Begin, "step")

-----------------------------------------------------------------------------
(* The instruction streams and starting states explored *)

\* longest control-flow stream explored
MaxLen == 6

\* dcl_temps: the number of temporaries, also the size of the indexable file
NumTemps == 2

XYZW == {0, 1, 2, 3}

\* the comps of a destination mask: the selected components in ascending
\* order, the remaining slots unselected
MaskComps(S) ==
    LET sel == SelectSeq(<<0, 1, 2, 3>>, LAMBDA c : c \in S)
    IN  [i \in 1..4 |-> IF i <= Len(sel) THEN sel[i] ELSE NoComp]

\* the comps of a source that selects the single component c
Select1(c) == Vec4(c, NoComp, NoComp, NoComp)

Temp(i, comps) == Operand("TEMP", <<AbsIndex(i)>>, comps)

\* r0.x, the value every conditional instruction and switch tests
TestOperand == Temp(0, Select1(0))

\* control-flow streams are first built from tokens
Labels == {"CASE0", "CASE5", "DEFAULT"}

\* nesting context: 0 outside, 1 inside a switch only, 2 inside a loop
SwitchCtx(ctx) == IF ctx = 2 THEN 2 ELSE 1

RECURSIVE BlocksExact(_, _), StmtExact(_, _), SwBodyExact(_, _)

\* every statement sequence of exactly n tokens
BlocksExact(n, ctx) ==
    IF n = 0 THEN {<<>>}
    ELSE UNION {{st \o rest : st \in StmtExact(k, ctx),
                               rest \in BlocksExact(n - k, ctx)} : k \in 1..n}

\* every statement of exactly k tokens
StmtExact(k, ctx) ==
    IF k = 1
    THEN (IF ctx >= 1 THEN {<<"BREAK">>} ELSE {})
         \cup (IF ctx = 2 THEN {<<"CONTINUE">>} ELSE {})
    ELSE {<<"IF">> \o b \o <<"ENDIF">> : b \in BlocksExact(k - 2, ctx)}
         \cup {<<"LOOP">> \o b \o <<"ENDLOOP">> : b \in BlocksExact(k - 2, 2)}
         \cup (IF k < 3 THEN {}
               ELSE UNION {{<<"IF">> \o b1 \o <<"ELSE">> \o b2 \o <<"ENDIF">> :
                               b1 \in BlocksExact(j, ctx),
                               b2 \in BlocksExact(k - 3 - j, ctx)} : j \in 0..(k - 3)}
                    \cup {<<"SWITCH">> \o body \o <<"ENDSWITCH">> :
                               body \in SwBodyExact(k - 2, SwitchCtx(ctx))})

\* every switch body of exactly n tokens: labelled groups
SwBodyExact(n, ctx) ==
    UNION {{<<lab>> \o b \o rest :
               lab \in Labels, b \in BlocksExact(g - 1, ctx),
               rest \in (IF g = n THEN {<<>>} ELSE SwBodyExact(n - g, ctx))} :
           g \in 1..n}

\* the well-nested token streams of at most n tokens
Skeletons(n) == UNION {BlocksExact(k, 0) : k \in 0..n}

\* a token as an instruction; cond turns BREAK and CONTINUE into their
\* conditional forms, nz is the nonzero flag of the conditional instructions
TokenInstr(tok, cond, nz) ==
    CASE tok = "IF" -> InstrNZ("IF", <<TestOperand>>, nz)
      [] tok = "SWITCH" -> Instr("SWITCH", <<TestOperand>>)
      [] tok = "CASE0" -> Instr("CASE", <<Imm1(Zero32)>>)
      [] tok = "CASE5" -> Instr("CASE", <<Imm1(Five32)>>)
      [] tok = "BREAK" /\ cond -> InstrNZ("BREAKC", <<TestOperand>>, nz)
      [] tok = "CONTINUE" /\ cond -> InstrNZ("CONTINUEC", <<TestOperand>>, nz)
      [] OTHER -> Instr(tok, <<>>)

Materialise(toks, cond, nz) == [i \in 1..Len(toks) |-> TokenInstr(toks[i], cond, nz)]

FlowPrograms ==
    {Materialise(toks, cond, nz) :
        toks \in Skeletons(MaxLen) \ {<<>>}, cond \in BOOLEAN, nz \in BOOLEAN}

\* mov r1.x, l(1.0)
PlainMov == Instr("MOV", <<Temp(1, MaskComps({0})), Imm1(Float1)>>)

Terminators(nz) ==
    {Instr("RET", <<>>), InstrNZ("RETC", <<TestOperand>>, nz),
     InstrNZ("DISCARD", <<TestOperand>>, nz)}

InsertAt(seq, k, x) == SubSeq(seq, 1, k) \o <<x>> \o SubSeq(seq, k + 1, Len(seq))

\* shorter control-flow streams with one RET, RETC or DISCARD inserted
\* anywhere and a mov appended
TermPrograms ==
    UNION {{InsertAt(Materialise(toks, FALSE, nz), k, t) \o <<PlainMov>> :
               k \in 0..Len(toks), t \in Terminators(nz)} :
           toks \in Skeletons(MaxLen - 3), nz \in BOOLEAN}


\* r1.w, the register component relative indices add
RelOperand == Temp(1, Select1(3))

IndexableTemp(file, member, comps) ==
    Operand("INDEXABLE_TEMP", <<AbsIndex(file), AbsIndex(member)>>, comps)

\* destinations that name a writable register
WritableDsts ==
    {Temp(0, MaskComps(S)) : S \in (SUBSET XYZW) \ {{}}}
    \cup {Operand("TEMP", <<RelIndex(1, RelOperand)>>, MaskComps(XYZW)),
          IndexableTemp(0, 1, MaskComps({1, 2})),
          Operand("OUTPUT", <<AbsIndex(0)>>, MaskComps(XYZW)),
          Operand("OUTPUT_DEPTH", <<>>, Splat(NoComp))}

\* destinations that may resolve to nothing: indices past the declared
\* counts, a relative index, read-only operands and the null operand
UnwritableDsts ==
    {Temp(NumTemps, MaskComps(XYZW)),
     Operand("TEMP", <<RelIndex(0, RelOperand)>>, MaskComps(XYZW)),
     IndexableTemp(0, NumTemps, MaskComps(XYZW)),
     IndexableTemp(1, 0, MaskComps(XYZW)),
     Operand("OUTPUT", <<AbsIndex(Len(OutputSig))>>, MaskComps(XYZW)),
     Operand("INPUT", <<AbsIndex(0)>>, MaskComps(XYZW)),
     Operand("CONSTANT_BUFFER", <<AbsIndex(0), AbsIndex(0)>>, MaskComps(XYZW)),
     Operand("NULL", <<>>, Splat(NoComp))}

MovSources ==
    {Temp(1, Vec4(0, 1, 2, 3)), Temp(1, Select1(1)),
     Imm4(Vec4(Float1, Float2, Float3, Float4))}

MovInstrs ==
    {Instr("MOV", <<d, src>>) : d \in WritableDsts \cup UnwritableDsts,
                                src \in MovSources}

ArithInstrs ==
    {Instr("ADD", <<Temp(0, MaskComps(XYZW)), Temp(1, Vec4(0, 1, 2, 3)),
                    Temp(1, Vec4(0, 1, 2, 3))>>),
     Instr("ADD", <<Temp(0, MaskComps({0})), Temp(1, Select1(0)), Temp(1, Select1(1))>>),
     Instr("ADD", <<Temp(0, MaskComps({1, 3})), Temp(1, Vec4(0, 1, 2, 3)),
                    Temp(0, Vec4(0, 1, 2, 3))>>),
     InstrSat("ADD", <<Temp(0, MaskComps(XYZW)), Temp(1, Vec4(0, 1, 2, 3)),
                       Temp(1, Vec4(0, 1, 2, 3))>>),
     Instr("ADD", <<Temp(NumTemps, MaskComps(XYZW)), Temp(1, Vec4(0, 1, 2, 3)),
                    Temp(1, Vec4(0, 1, 2, 3))>>),
     Instr("IADD", <<Temp(0, MaskComps(XYZW)), Temp(1, Vec4(0, 1, 2, 3)),
                     Temp(1, Vec4(0, 1, 2, 3))>>),
     Instr("RCP", <<Temp(0, MaskComps(XYZW)), Temp(1, Vec4(0, 1, 2, 3))>>),
     Instr("EXP", <<Temp(0, MaskComps({2})), Temp(1, Select1(0))>>),
     Instr("LOG", <<Operand("NULL", <<>>, Splat(NoComp)), Temp(1, Select1(0))>>),
     Instr("SINCOS", <<Temp(0, MaskComps(XYZW)), Operand("NULL", <<>>, Splat(NoComp)),
                       Temp(1, Vec4(0, 1, 2, 3))>>),
     Instr("SINCOS", <<Temp(0, MaskComps({0, 1})), Temp(1, MaskComps({0, 1})),
                       Temp(1, Vec4(0, 1, 2, 3))>>),
     Instr("SAMPLE_L", <<Temp(0, MaskComps(XYZW)), Temp(1, Vec4(0, 1, 2, 3)),
                         Operand("RESOURCE", <<AbsIndex(0)>>, Vec4(0, 1, 2, 3)),
                         Operand("SAMPLER", <<AbsIndex(0)>>, Splat(NoComp)),
                         Imm1(Zero32)>>),
     Instr("SAMPLE_L", <<Temp(0, MaskComps({2})), Temp(1, Vec4(0, 1, 2, 3)),
                         Operand("RESOURCE", <<AbsIndex(0)>>, Vec4(0, 1, 2, 3)),
                         Operand("SAMPLER", <<AbsIndex(0)>>, Splat(NoComp)),
                         Imm1(Zero32)>>)}

\* the instructions two-instruction streams are made of
PairInstrs ==
    {Instr("MOV", <<Temp(0, MaskComps(XYZW)), Temp(1, Vec4(0, 1, 2, 3))>>),
     Instr("MOV", <<Temp(1, MaskComps(XYZW)), Temp(0, Vec4(0, 1, 2, 3))>>),
     Instr("ADD", <<Temp(0, MaskComps({0})), Temp(1, Select1(0)), Temp(1, Select1(1))>>),
     Instr("ADD", <<Temp(0, MaskComps(XYZW)), Temp(1, Vec4(0, 1, 2, 3)),
                    Temp(1, Vec4(0, 1, 2, 3))>>),
     Instr("EXP", <<Temp(0, MaskComps({2})), Temp(1, Select1(0))>>),
     Instr("NOP", <<>>)}

DataPrograms ==
    {<<i>> : i \in MovInstrs \cup ArithInstrs}
    \cup {<<i, j>> : i \in PairInstrs, j \in PairInstrs}

\* register contents the data streams start from
InitVecs ==
    {Splat(Zero32),
     Vec4(Float1, Float2, Float3, Float4),
     Vec4(Float1, Float2, Float3, Zero32),
     Vec4(FloatMinNormalx1p5, NegFloatMinNormal, FloatInf, MinusOne32),
     Vec4(FloatDenormHalfMin, NegZero32, Zero32, One32)}

RegisterFile(r0, r1) ==
    [i \in 1..NumTemps |-> IF i = 1 THEN r0 ELSE IF i = 2 THEN r1 ELSE Splat(Zero32)]

DataRegisterFiles == {RegisterFile(a, b) : a, b \in InitVecs}

FlowRegisterFiles ==
    {RegisterFile(Vec4(x, Zero32, Zero32, Zero32), Splat(Zero32)) : x \in {Zero32, Five32}}

\* mov r0.xyzw, r1.<swizzle> for every swizzle, specified or not per slot
SwizzlePrograms ==
    {<<Instr("MOV", <<Temp(0, MaskComps(XYZW)), Temp(1, Vec4(a, b, c, d))>>)>> :
        a \in XYZW \cup {NoComp}, b \in XYZW \cup {NoComp},
        c \in XYZW \cup {NoComp}, d \in XYZW \cup {NoComp}}

SwizzleRegisterFiles ==
    {RegisterFile(Splat(Zero32), Vec4(Float1, Float2, Float3, Float4))}

\* doubles the double-precision streams read
DOne == Dbl(Zero32, <<16368, 0>>)
DTwoAndHalf == Dbl(Zero32, <<16388, 0>>)
DMinusThree == Dbl(Zero32, <<49160, 0>>)
DNaN == Dbl(Zero32, <<32760, 0>>)
DOneAndTie == Dbl(<<12288, 0>>, <<16368, 0>>)

\* a register holding two doubles
DoubleVec(a, b) == Vec4(a.lo, a.hi, b.lo, b.hi)

\* destinations of the double-precision streams: r0 under every mask of one
\* or two components
DoubleDsts ==
    {Temp(0, MaskComps(S)) : S \in {T \in SUBSET XYZW : Cardinality(T) \in {1, 2}}}

\* dtoX r0.mask, r1.xyzw  and  dOP r0.mask, r1.xyzw, r1.zwxy
DoublePrograms ==
    {<<Instr(o, <<d, Temp(1, Vec4(0, 1, 2, 3))>>)>> :
        o \in {"DTOI", "DTOU", "DTOF"}, d \in DoubleDsts}
    \cup {<<Instr(o, <<d, Temp(1, Vec4(0, 1, 2, 3)), Temp(1, Vec4(2, 3, 0, 1))>>)>> :
            o \in {"DEQ", "DNE", "DGE", "DLT"}, d \in DoubleDsts}

DoubleRegisterFiles ==
    {RegisterFile(Vec4(Float1, Float2, Float3, Float4), DoubleVec(a, b)) :
        <<a, b>> \in {<<DOne, DTwoAndHalf>>, <<DTwoAndHalf, DTwoAndHalf>>,
                      <<DMinusThree, DNaN>>, <<DOneAndTie, DOne>>}}

\* udiv, uaddc and usubb with both destinations, or one of them null
UIntPrograms ==
    {<<Instr(o, <<d0, d1, Temp(0, Vec4(0, 1, 2, 3)), Temp(1, Vec4(0, 1, 2, 3))>>)>> :
        o \in {"UDIV", "UADDC", "USUBB"},
        d0 \in {Temp(0, MaskComps(XYZW)), Operand("NULL", <<>>, Splat(NoComp))},
        d1 \in {Temp(1, MaskComps(XYZW)), Operand("NULL", <<>>, Splat(NoComp))}}
    \cup {<<Instr(o, <<Temp(0, MaskComps({0, 1})), Temp(1, MaskComps({2, 3})),
                       Temp(0, Vec4(0, 1, 2, 3)), Temp(1, Vec4(3, 2, 1, 0))>>)>> :
            o \in {"UDIV", "UADDC", "USUBB"}}

\* unsigned operands: small, large, zero, and pairs that carry or borrow
UIntVecs ==
    {Vec4(<<0, 7>>, MinusOne32, <<32768, 0>>, Zero32),
     Vec4(<<0, 2>>, <<0, 3>>, <<0, 65535>>, Zero32),
     Vec4(Zero32, One32, Zero32, <<32768, 1>>),
     Vec4(MinusOne32, MinusOne32, One32, <<4660, 22136>>)}

UIntRegisterFiles == {RegisterFile(a, b) : a, b \in UIntVecs}

\* the bytes of two and of four 32-bit elements
Bytes8 == <<68, 51, 34, 17, 136, 119, 102, 85>>
Bytes16 == Bytes8 \o <<1, 0, 0, 0, 255, 255, 255, 255>>

\* the GlobalState the caller binds: u0 a raw buffer of two elements, u1 a
\* 2x2 texture, u2 a structured buffer of two 8-byte elements, u3 a view of
\* the second element of a buffer of two, t0 and t1 the read-only
\* counterparts of u0 and u2, g0 two words of group-shared memory
BoundViews(counter) ==
    [uavs |->
        <<[data |-> Bytes8, firstElement |-> 0, numElements |-> 2, tex |-> FALSE,
           rowPitch |-> 0, depthPitch |-> 0, format |-> ViewFmt(1),
           hiddenCounter |-> counter],
          [data |-> Bytes16, firstElement |-> 0, numElements |-> 0, tex |-> TRUE,
           rowPitch |-> 8, depthPitch |-> 16, format |-> ViewFmt(1),
           hiddenCounter |-> Zero32],
          [data |-> Bytes16, firstElement |-> 0, numElements |-> 2, tex |-> FALSE,
           rowPitch |-> 0, depthPitch |-> 0, format |-> ViewFmt(2),
           hiddenCounter |-> Five32],
          [data |-> Bytes8, firstElement |-> 1, numElements |-> 1, tex |-> FALSE,
           rowPitch |-> 0, depthPitch |-> 0, format |-> ViewFmt(1),
           hiddenCounter |-> Zero32]>>,
     srvs |->
        <<[data |-> Bytes8, firstElement |-> 0, numElements |-> 2,
           format |-> ViewFmt(1)],
          [data |-> Bytes16, firstElement |-> 0, numElements |-> 2,
           format |-> ViewFmt(2)]>>,
     groupshared |->
        <<[structured |-> FALSE, bytestride |-> 4, count |-> 2, data |-> Bytes8]>>]

GlobalStates == {BoundViews(c) : c \in {Zero32, One32, Five32, MinusOne32}}

View(type, i, comps) == Operand(type, <<AbsIndex(i)>>, comps)
UAV(i, comps) == View("UNORDERED_ACCESS_VIEW", i, comps)
Address(x, y, z) == Imm4(Vec4(W(x), W(y), W(z), Zero32))

\* instructions that read or change the GlobalState
MemoryInstrs ==
    {Instr(o, <<Temp(0, MaskComps(m)), UAV(u, MaskComps(XYZW))>>) :
        o \in {"IMM_ATOMIC_ALLOC", "IMM_ATOMIC_CONSUME"}, m \in {{0}, XYZW},
        u \in {0, 2}}
    \cup {Instr("IMM_ATOMIC_IADD",
                <<Temp(0, MaskComps({0})), UAV(0, MaskComps(XYZW)), Address(a, 0, 0),
                  Temp(1, Select1(0))>>) : a \in 0..2}
    \cup {Instr("IMM_ATOMIC_IADD",
                <<Temp(0, MaskComps({0})), UAV(2, MaskComps(XYZW)), Address(1, 4, 0),
                  Temp(1, Select1(0))>>),
          Instr("ATOMIC_IADD",
                <<UAV(0, MaskComps(XYZW)), Address(1, 0, 0), Temp(1, Select1(0))>>),
          Instr("ATOMIC_IADD",
                <<View("THREAD_GROUP_SHARED_MEMORY", 0, MaskComps(XYZW)),
                  Address(0, 0, 0), Temp(1, Select1(0))>>),
          Instr("ATOMIC_IADD",
                <<View("THREAD_GROUP_SHARED_MEMORY", 2, MaskComps(XYZW)),
                  Address(0, 0, 0), Temp(1, Select1(0))>>),
          Instr("ATOMIC_IADD",
                <<View("THREAD_GROUP_SHARED_MEMORY", 1, MaskComps(XYZW)),
                  Address(0, 0, 0), Temp(1, Select1(0))>>),
          Instr("IMM_ATOMIC_IADD",
                <<Temp(0, MaskComps({0})),
                  View("THREAD_GROUP_SHARED_MEMORY", 1, MaskComps(XYZW)),
                  Address(0, 0, 0), Temp(1, Select1(0))>>),
          Instr("STORE_RAW",
                <<View("THREAD_GROUP_SHARED_MEMORY", 1, MaskComps(XYZW)),
                  Imm1(Zero32), Temp(1, Vec4(0, 1, 2, 3))>>),
          Instr("STORE_RAW",
                <<View("THREAD_GROUP_SHARED_MEMORY", 2, MaskComps(XYZW)),
                  Imm1(Zero32), Temp(1, Vec4(0, 1, 2, 3))>>)}
    \cup {Instr("IMM_ATOMIC_IADD",
                <<Temp(0, MaskComps({0})), UAV(3, MaskComps(XYZW)),
                  Imm4(Vec4(a, Zero32, Zero32, Zero32)), Temp(1, Select1(0))>>) :
            a \in {Zero32, MinusOne32}}
    \cup {Instr("STORE_UAV_TYPED", <<UAV(3, MaskComps(XYZW)),
                                    Imm4(Vec4(a, Zero32, Zero32, Zero32)),
                                    Temp(1, Vec4(0, 1, 2, 3))>>) :
            a \in {Zero32, MinusOne32}}
    \cup {Instr("LD_RAW", <<Temp(0, MaskComps(m)), Imm1(a), v>>) :
            m \in {XYZW, {1}}, a \in {Zero32, W(4), W(8), MinusOne32},
            v \in {UAV(0, Vec4(0, 1, 2, 3)), View("RESOURCE", 0, Vec4(0, 1, 2, 3))}}
    \cup {Instr("LD_RAW", <<Temp(0, MaskComps(XYZW)), Imm1(W(a)),
                           View("THREAD_GROUP_SHARED_MEMORY", g, Vec4(0, 1, 2, 3))>>) :
            a \in {1, 2}, g \in {0, 1, 2}}
    \cup {InstrStride("LD_STRUCTURED",
                      <<Temp(0, MaskComps(m)), Imm1(W(i)), Imm1(W(b)), v>>, st) :
            m \in {XYZW, {0, 1}}, i \in 0..2, b \in {0, 4},
            <<v, st>> \in {<<UAV(2, Vec4(0, 1, 2, 3)), 8>>,
                           <<View("RESOURCE", 1, Vec4(0, 1, 2, 3)), 0>>}}
    \cup {Instr("LD_UAV_TYPED", <<Temp(0, MaskComps(m)), Address(x, y, 0),
                                 UAV(1, Vec4(0, 1, 2, 3))>>) :
            m \in {XYZW, {2}}, <<x, y>> \in {<<0, 0>>, <<1, 1>>, <<0, 2>>}}
    \cup {Instr("LD_UAV_TYPED", <<Temp(0, MaskComps(XYZW)), Address(x, 0, 0),
                                 UAV(0, Vec4(0, 1, 2, 3))>>) : x \in {1, 2}}
    \cup {Instr("STORE_RAW", <<UAV(0, MaskComps(m)), Imm1(W(a)),
                              Temp(1, Vec4(0, 1, 2, 3))>>) :
            m \in {XYZW, {0}}, a \in {4, 8}}
    \cup {Instr("STORE_STRUCTURED", <<UAV(2, MaskComps({0, 1})), Imm1(W(i)),
                                     Imm1(W(b)), Temp(1, Vec4(0, 1, 2, 3))>>) :
            i \in {1, 2}, b \in {0, 8}}
    \cup {Instr("STORE_UAV_TYPED", <<UAV(1, MaskComps(XYZW)), Address(x, y, 0),
                                    Temp(1, Vec4(0, 1, 2, 3))>>) :
            <<x, y>> \in {<<1, 0>>, <<0, 2>>}}
    \cup {Instr("STORE_UAV_TYPED", <<UAV(0, MaskComps(XYZW)), Address(5, 0, 0),
                                    Temp(1, Vec4(0, 1, 2, 3))>>)}

\* each memory instruction alone, after a ret that left the lane done, and
\* twice in a row
MemoryPrograms ==
    {<<i>> : i \in MemoryInstrs}
    \cup {<<Instr("RET", <<>>), i>> : i \in MemoryInstrs}
    \cup {<<i, i>> : i \in MemoryInstrs}

MemoryRegisterFiles ==
    {RegisterFile(Vec4(Float1, Float2, Float3, Float4),
                  Vec4(W(9), W(10), W(11), W(12)))}

\* the lanes of a quad: the derived register r1 differs from lane to lane
QuadLaneVecs ==
    {<<Vec4(Float1, Float2, Float3, Float4),
       Vec4(Float2, Float2, FloatDenormHalfMin, FloatInf),
       Vec4(Float4, Float1, FloatNaN, Float3),
       Vec4(Float3, Float4, Float1, Float2)>>,
     <<Vec4(Float4, Float3, Float2, Float1),
       Vec4(Float1, Float2, Float3, Float4),
       Vec4(Float2, Float4, Float4, FloatMinNormal),
       Vec4(FloatMinNormalx1p5, Float1, Float3, Float3)>>}

\* the State of a lane before its first step
FreshLane(regs) ==
    [nextInstruction |-> 0, done |-> FALSE, flags |-> {}, registers |-> regs,
     indexableTemps |-> <<[i \in 1..NumTemps |-> Splat(Zero32)]>>,
     outputs |-> [i \in 1..Len(OutputSig) |-> Splat(Zero32)],
     modified |-> <<>>]

\* the caller's quad: four fresh lanes
Quads ==
    {[k \in 1..4 |-> FreshLane(RegisterFile(Splat(MinusOne32), v[k]))] :
        v \in QuadLaneVecs}

\* one derivative, or one imm_atomic_alloc, executed by every lane
QuadPrograms ==
    {<<Instr(o, <<Temp(0, MaskComps(m)), Temp(1, c)>>)>> :
        o \in DerivXOps \cup DerivYOps,
        <<m, c>> \in {<<XYZW, Vec4(0, 1, 2, 3)>>, <<{1}, Vec4(3, 2, 1, 0)>>}}
    \cup {<<Instr("IMM_ATOMIC_ALLOC",
                  <<Temp(0, MaskComps({0})), UAV(0, MaskComps(XYZW))>>)>>}

\* the State after State::Init and the caller's setup of outputs
InitState ==
    /\ nextInstruction = 0
    /\ done = FALSE
    /\ flags = {}
    /\ indexableTemps = <<[i \in 1..NumTemps |-> Splat(Zero32)]>>
    /\ outputs = [i \in 1..Len(OutputSig) |-> Splat(Zero32)]
    /\ modified = <<>>
    /\ currentInstruction = -1
    /\ lastStep = "init"
    /\ input = LaneState
    /\ srcOpers = <<>>
    /\ globalIn = global

\* a lane run on its own, without a quad
InitLane ==
    /\ quad = <<>>
    /\ quadIndex = 0
    /\ call = NoCall
    /\ InitState

InitFlow ==
    /\ program \in FlowPrograms \cup TermPrograms
    /\ registers \in FlowRegisterFiles
    /\ global = BoundViews(Zero32)
    /\ InitLane

InitData ==
    /\ program \in DataPrograms
    /\ registers \in DataRegisterFiles
    /\ global = BoundViews(Zero32)
    /\ InitLane

\* the shift operands: 1-component immediates (one of them with bits above
\* the low five), a 4-component immediate, a register read whole and registers
\* selecting one component
ShiftOperands ==
    {Imm1(<<0, 4>>), Imm1(<<1, 33>>), Imm1(<<0, 31>>),
     Imm4(Vec4(<<0, 1>>, <<0, 16>>, <<0, 36>>, Zero32)),
     Temp(0, Vec4(0, 1, 2, 3)), Temp(0, Select1(0)), Temp(0, Select1(2))}

\* ishl / ushr / ishr of r1 by each shift operand, under three masks
ShiftPrograms ==
    {<<Instr(o, <<Temp(1, MaskComps(m)), Temp(1, Vec4(0, 1, 2, 3)), sh>>)>> :
        o \in {"ISHL", "USHR", "ISHR"}, m \in {XYZW, {1, 3}}, sh \in ShiftOperands}
    \cup {<<Instr(o, <<Temp(1, MaskComps({2})), Temp(1, Select1(2)), sh>>)>> :
            o \in {"ISHL", "USHR", "ISHR"}, sh \in ShiftOperands}

\* r0 holds the shift amounts, r1 the words shifted
ShiftRegisterFiles ==
    {RegisterFile(amounts, words) :
        amounts \in {Vec4(<<0, 1>>, <<0, 8>>, <<0, 17>>, <<0, 31>>),
                     Vec4(<<0, 3>>, <<0, 3>>, <<0, 3>>, <<0, 3>>)},
        words \in {Vec4(<<32768, 1>>, <<0, 65535>>, <<65280, 255>>, MinusOne32),
                   Vec4(<<32767, 65535>>, <<4660, 22136>>, One32, <<49152, 0>>)}}

InitShift ==
    /\ program \in ShiftPrograms
    /\ registers \in ShiftRegisterFiles
    /\ global = BoundViews(Zero32)
    /\ InitLane

InitUInt ==
    /\ program \in UIntPrograms
    /\ registers \in UIntRegisterFiles
    /\ global = BoundViews(Zero32)
    /\ InitLane

InitMemory ==
    /\ program \in MemoryPrograms
    /\ registers \in MemoryRegisterFiles
    /\ global \in GlobalStates
    /\ InitLane

InitDouble ==
    /\ program \in DoublePrograms
    /\ registers \in DoubleRegisterFiles
    /\ global = BoundViews(Zero32)
    /\ InitLane

InitSwizzle ==
    /\ program \in SwizzlePrograms
    /\ registers \in SwizzleRegisterFiles
    /\ global = BoundViews(Zero32)
    /\ InitLane

\* a pixel-shader quad, the caller about to step lane quadIndex; or one of
\* its lanes run without a quad
InitQuad ==
    /\ program \in QuadPrograms
    /\ global \in IF program[1].operation = "IMM_ATOMIC_ALLOC" THEN GlobalStates
                  ELSE {BoundViews(Zero32)}
    /\ quadIndex \in 0..3
    /\ \E q \in Quads :
          /\ quad \in {q, <<>>}
          /\ registers = q[quadIndex + 1].registers
    /\ call = NoCall
    /\ InitState

Init ==
    \/ InitFlow \/ InitData \/ InitDouble \/ InitSwizzle \/ InitUInt \/ InitMemory
    \/ InitQuad
    \/ InitShift

Next ==
    \/ StepTerminal
    \/ StepMov
    \/ StepShift
    \/ StepAdd
    \/ StepMathIntrinsic
    \/ StepSinCos
    \/ StepSample
    \/ StepUDiv
    \/ StepUAddC
    \/ StepUSubB
    \/ StepAlloc
    \/ StepConsume
    \/ StepAtomic
    \/ StepLoad
    \/ StepStore
    \/ StepDeriv
    \/ Schedule
    \/ StepDoubleConvert
    \/ StepDoubleCompare
    \/ StepLabel
    \/ StepSwitch
    \/ StepLoopBack
    \/ StepBreak
    \/ StepIf
    \/ StepElse
    \/ StepDiscard
    \/ StepRet

Spec == Init /\ [][Next]_vars

\* 32-bit patterns of every class: zeros, denormals, normals, infinities and
\* NaNs of both signs
FloatPatterns ==
    {<<sign * 32768 + e * 128 + m[1], m[2]>> :
        sign \in {0, 1}, e \in {0, 1, 127, 254, 255},
        m \in {<<0, 0>>, <<0, 1>>, <<64, 0>>, <<127, 65535>>}}

\* operands of min and max: infinities, finite values, zeros and two NaNs
FloatOperands ==
    {FloatNeg(FloatInf), FloatNeg(Float2), NegFloatMinNormal, NegZero32, Zero32,
     FloatDenormHalfMin, Float1, Float2, FloatInf, FloatNaN, <<65408, 1>>}

\* opcodes the classifier switches do not list
UnlistedOps == {"LABEL", "CALL", "EMIT", "CUT"}

\* the opcodes the classifiers are asked about
Opcodes ==
    FloatOps \cup SIntOps \cup UIntOps \cup DoubleOps \cup FlushingOps
    \cup NonFlushingOps \cup UnlistedOps

\* an immediate constant buffer of l stored words, each its own non-zero value
MaxImmediate == 9
ImmediateWords(l) == [k \in 1..l |-> W(256 + k)]

\* vec4 indices: inside a buffer of two vectors, just past it, and one whose
\* product with 4 does not fit 32 bits
ImmediateIndices == {0, 1, 2, 3, 1073741824}

\* the helper calls that are made
HelperInputs ==
    {[fn |-> "input", kind |-> "word", args |-> <<w>>, result |-> <<>>] :
        w \in FloatPatterns}
    \cup {[fn |-> "input", kind |-> "pair", args |-> <<a, b>>, result |-> <<>>] :
            a \in FloatOperands, b \in FloatOperands}
    \cup {[fn |-> "input", kind |-> "opcode", args |-> <<op>>, result |-> <<>>] :
            op \in Opcodes}
    \cup {[fn |-> "input", kind |-> "icb",
           args |-> <<ImmediateWords(l),
                      View("IMMEDIATE_CONSTANT_BUFFER", i, Vec4(0, 1, 2, 3))>>,
           result |-> <<>>] : l \in 0..MaxImmediate, i \in ImmediateIndices}

\* the helper functions called on their own, as the unit tests call them
InitHelpers ==
    /\ program = <<>>
    /\ registers = RegisterFile(Splat(Zero32), Splat(Zero32))
    /\ global = BoundViews(Zero32)
    /\ quad = <<>>
    /\ quadIndex = 0
    /\ call \in HelperInputs
    /\ InitState

NextHelpers ==
    \/ CallFlushDenorm
    \/ CallSat
    \/ CallMin
    \/ CallMax
    \/ CallClassify
    \/ CallGetSrc

SpecHelpers == InitHelpers /\ [][NextHelpers]_vars

\* a well-nested token stream with every BREAK turned into a CONTINUE: a
\* CONTINUE may then lie inside a switch that no loop encloses
Continuing(toks) ==
    [i \in 1..Len(toks) |-> IF toks[i] = "BREAK" THEN "CONTINUE" ELSE toks[i]]

\* control-flow streams whose brackets are properly nested and whose BREAK
\* and CONTINUE instructions lie inside a loop or a switch
StreamPrograms ==
    FlowPrograms
    \cup {Materialise(Continuing(toks), cond, nz) :
            toks \in Skeletons(MaxLen) \ {<<>>}, cond \in BOOLEAN, nz \in BOOLEAN}

InitStreams ==
    /\ program \in StreamPrograms
    /\ registers \in FlowRegisterFiles
    /\ global = BoundViews(Zero32)
    /\ InitLane

\* repeated GetNext on a control-flow stream
NextStreams ==
    \/ StepTerminal
    \/ StepLabel
    \/ StepSwitch
    \/ StepLoopBack
    \/ StepBreak
    \/ StepIf
    \/ StepElse

SpecStreams == InitStreams /\ [][NextStreams]_vars

\* the caller calls GetNext again and again
SpecStreamsFair == SpecStreams /\ WF_vars(NextStreams)

-----------------------------------------------------------------------------
(* Vocabulary of the properties: the last GetNext call, seen from outside *)

\* GetNext has been called, on a state with an instruction left to execute
Stepped == lastStep # "init" /\ input.nextInstruction >= 0
           /\ input.nextInstruction < NumInstructions

\* GetNext has been called on a state with nothing left to execute
CalledAtEnd == lastStep # "init" /\ input.nextInstruction >= NumInstructions

\* the instruction at the index the call started from
InputOp == GetInstruction(input.nextInstruction)

\* the x component of the first operand of that instruction, read from the
\* state the call started from
InputTest == GetSrc(input, InputOp.operands[1], InputOp).uv[1]

FlowOpcodes ==
    {"IF", "ELSE", "SWITCH", "BREAK", "BREAKC", "CONTINUE", "CONTINUEC", "ENDLOOP"}

CountOps(ops, lo, hi) == Cardinality({j \in lo..hi : OpAt(j) \in ops})

\* how many blocks opened by `open` and closed by `close` enclose index j
NestDepth(open, close, j) == CountOps(open, 0, j - 1) - CountOps(close, 0, j - 1)

Least(S) == CHOOSE x \in S : \A y \in S : x <= y

\* the index of the instruction that closes the block instruction i opens,
\* or, for an instruction inside a block, the innermost enclosing block
Closer(open, close, i, inside) ==
    LET target == IF inside THEN NestDepth(open, close, i) - 1
                  ELSE NestDepth(open, close, i)
    IN  Least({j \in (i + 1)..(NumInstructions - 1) :
                 OpAt(j) \in close /\ NestDepth(open, close, j + 1) = target})

\* the first instruction after index j that is not a CASE or DEFAULT label
FirstNonLabel(j) ==
    Least({k \in (j + 1)..NumInstructions :
             k = NumInstructions \/ OpAt(k) \notin {"CASE", "DEFAULT"}})

\* the labels of the switch block that SWITCH instruction i opens
OwnLabels(i) ==
    {j \in (i + 1)..(Closer({"SWITCH"}, {"ENDSWITCH"}, i, FALSE) - 1) :
        /\ OpAt(j) \in {"CASE", "DEFAULT"}
        /\ NestDepth({"SWITCH"}, {"ENDSWITCH"}, j)
             = NestDepth({"SWITCH"}, {"ENDSWITCH"}, i) + 1}

\* the immediate of CASE label j
CaseValue(j) == GetInstruction(j).operands[1].values[1]

\* the ELSE of the if block that IF instruction i opens, as a set
OwnElse(i) ==
    {j \in (i + 1)..(Closer({"IF"}, {"ENDIF"}, i, FALSE) - 1) :
        /\ OpAt(j) = "ELSE"
        /\ NestDepth({"IF"}, {"ENDIF"}, j) = NestDepth({"IF"}, {"ENDIF"}, i) + 1}

\* the test of a conditional instruction is satisfied: zero for the _z form,
\* non-zero for the _nz form
TestSatisfied(instr, test) ==
    IF instr.nonzero THEN test # Zero32 ELSE test = Zero32

-----------------------------------------------------------------------------
(* C1 *)

\* C1: a GetNext call on a state whose nextInstruction is at or past the end
\* of the stream returns a state with the same nextInstruction, done flag,
\* flags, registers, indexable temporaries and outputs.
C1_TerminalStepUnchanged ==
    CalledAtEnd =>
        /\ nextInstruction = input.nextInstruction
        /\ done = input.done
        /\ flags = input.flags
        /\ registers = input.registers
        /\ indexableTemps = input.indexableTemps
        /\ outputs = input.outputs

\* a terminal call on a state that carries event flags and written registers
C1_Witness ==
    /\ CalledAtEnd
    /\ input.flags # {}
    /\ input.modified = <<>>
    /\ lastStep = "terminal"

-----------------------------------------------------------------------------
(* C2 *)

-----------------------------------------------------------------------------
(* C3 *)

\* C3: a non-terminal GetNext call executes the instruction at index
\* nextInstruction, and for every opcode that is not a flow-control opcode
\* the returned nextInstruction is the input nextInstruction + 1.
C3_SequentialStep ==
    Stepped =>
        /\ currentInstruction = input.nextInstruction
        /\ InputOp.operation \notin FlowOpcodes =>
              nextInstruction = input.nextInstruction + 1

\* the second instruction of a stream is a non-flow instruction that has
\* just executed and written a register
C3_Witness ==
    /\ Stepped
    /\ input.nextInstruction = 1
    /\ InputOp.operation \in {"MOV", "ADD"}
    /\ modified # <<>>
    /\ nextInstruction = 2

-----------------------------------------------------------------------------
(* C4 *)

\* where a failed IF at index i must continue: just after its own ELSE if it
\* has one, otherwise just after its matching ENDIF
IfFailTarget(i) ==
    IF OwnElse(i) # {} THEN Least(OwnElse(i)) + 1
    ELSE Closer({"IF"}, {"ENDIF"}, i, FALSE) + 1

\* C4: when an IF's test fails (test != 0 for if_z, test == 0 for if_nz),
\* nextInstruction becomes the index just after the ELSE at the same nesting
\* depth if the IF has one, otherwise just after its matching ENDIF, whatever
\* complete if/else/endif blocks are nested inside; when the test passes,
\* nextInstruction is the index after the IF.
C4_IfResolution ==
    (Stepped /\ InputOp.operation = "IF") =>
        IF TestSatisfied(InputOp, InputTest)
        THEN nextInstruction = input.nextInstruction + 1
        ELSE nextInstruction = IfFailTarget(input.nextInstruction)

\* a failed IF has skipped a nested if/else/endif block and landed after its
\* own ELSE
C4_Witness ==
    /\ Stepped
    /\ InputOp.operation = "IF"
    /\ ~TestSatisfied(InputOp, InputTest)
    /\ OwnElse(input.nextInstruction) # {}
    /\ OpAt(nextInstruction - 1) = "ELSE"
    /\ \E j \in (input.nextInstruction + 1)..(nextInstruction - 2) : OpAt(j) = "ELSE"

-----------------------------------------------------------------------------
(* C5, C6 *)

OwnCases(i) == {j \in OwnLabels(i) : OpAt(j) = "CASE"}
OwnDefaults(i) == {j \in OwnLabels(i) : OpAt(j) = "DEFAULT"}
MatchingCases(i, v) == {j \in OwnCases(i) : CaseValue(j) = v}

\* C5: for a SWITCH whose value equals none of the CASE labels of its own
\* block and whose block has a DEFAULT label, nextInstruction after the step
\* is the first non-label instruction following that DEFAULT label, whatever
\* follows its ENDSWITCH.
C5_SwitchDefault ==
    (/\ Stepped
     /\ InputOp.operation = "SWITCH"
     /\ MatchingCases(input.nextInstruction, InputTest) = {}
     /\ OwnDefaults(input.nextInstruction) # {})
    => \E d \in OwnDefaults(input.nextInstruction) : nextInstruction = FirstNonLabel(d)

\* C6: when the switch value is bitwise equal to the immediate of a CASE
\* label of its own block, nextInstruction after the step is the first
\* instruction after that label (the first such label) that is neither CASE
\* nor DEFAULT, even when a DEFAULT or non-matching CASE labels precede it.
C6_SwitchMatchingCase ==
    (/\ Stepped
     /\ InputOp.operation = "SWITCH"
     /\ MatchingCases(input.nextInstruction, InputTest) # {})
    => nextInstruction = FirstNonLabel(Least(MatchingCases(input.nextInstruction, InputTest)))

\* a switch has jumped to its matching CASE past a DEFAULT label and a
\* non-matching CASE label of its own block
C6_Witness ==
    /\ Stepped
    /\ InputOp.operation = "SWITCH"
    /\ MatchingCases(input.nextInstruction, InputTest) # {}
    /\ LET m == Least(MatchingCases(input.nextInstruction, InputTest))
       IN  /\ \E d \in OwnDefaults(input.nextInstruction) : d < m
           /\ \E c \in OwnCases(input.nextInstruction) :
                 c < m /\ CaseValue(c) # InputTest
           /\ nextInstruction = m + 1

-----------------------------------------------------------------------------
(* C7 *)

BlockOpen == {"LOOP", "SWITCH"}
BlockClose == {"ENDLOOP", "ENDSWITCH"}

\* C7: BREAK, and BREAKC whose test passes, set nextInstruction to the index
\* just after the ENDLOOP or ENDSWITCH closing the innermost enclosing loop
\* or switch, skipping complete nested loop/switch blocks.
C7_BreakTarget ==
    (/\ Stepped
     /\ \/ InputOp.operation = "BREAK"
        \/ (InputOp.operation = "BREAKC" /\ TestSatisfied(InputOp, InputTest)))
    => nextInstruction = Closer(BlockOpen, BlockClose, input.nextInstruction, TRUE) + 1

\* a break inside a switch nested in a loop has left the lane inside the
\* loop, just after the ENDSWITCH
C7_Witness ==
    /\ Stepped
    /\ InputOp.operation \in {"BREAK", "BREAKC"}
    /\ OpAt(nextInstruction - 1) = "ENDSWITCH"
    /\ CountOps({"LOOP"}, 0, nextInstruction - 1)
         > CountOps({"ENDLOOP"}, 0, nextInstruction - 1)
    /\ nextInstruction > input.nextInstruction + 1

-----------------------------------------------------------------------------
(* C8 *)

\* the entries of the modified list, as a set
ModifiedEntries == {modified[k] : k \in 1..Len(modified)}

Entry(type, index, component) ==
    [type |-> type, index |-> index, component |-> component]

\* one entry for every temporary, indexable-temporary and plain output
\* component whose bits differ between the input and the returned state
ChangedEntries ==
    LET temps == {x \in (1..Len(registers)) \X (1..4) :
                    registers[x[1]][x[2]] # input.registers[x[1]][x[2]]}
        indexed == {y \in (1..Len(indexableTemps)) \X (1..NumTemps) \X (1..4) :
                      indexableTemps[y[1]][y[2]][y[3]]
                        # input.indexableTemps[y[1]][y[2]][y[3]]}
        outs == {y \in (1..Len(outputs)) \X (1..4) :
                   /\ OutputSig[y[1]] = "Undefined"
                   /\ outputs[y[1]][y[2]] # input.outputs[y[1]][y[2]]}
    IN  UNION { {Entry("Temporary", x[1] - 1, x[2] - 1) : x \in temps},
                {Entry("IndexedTemporary", y[1] - 1, y[3] - 1) : y \in indexed},
                {Entry("Output", y[1] - 1, y[2] - 1) : y \in outs} }

\* C8: after every non-terminal step the modified list holds an entry for
\* exactly the Temporary/IndexedTemporary/Output components whose 32-bit
\* pattern differs between the input and the returned state, also for
\* instructions that flush denormals.
C8_ChangeTracking == Stepped => ModifiedEntries = ChangedEntries

-----------------------------------------------------------------------------
(* C9, C10 *)

\* opcodes of the model that write one destination, operand 0, through SetDst
SingleDstOps == {"MOV", "ADD", "IADD", "RCP", "RSQ", "EXP", "LOG"}

\* the last call executed such an instruction and reached its SetDst
WroteDst == Stepped /\ lastStep = "step" /\ InputOp.operation \in SingleDstOps

InputDst == InputOp.operands[1]

\* a word read as int32
SIntValue(w) == IF w[1] >= 32768 THEN (w[1] - Half) * Half + w[2] ELSE w[1] * Half + w[2]

\* index k of an operand as the integer the shader means: the absolute part
\* plus the signed relative part
EffectiveIndex(oper, k) ==
    LET ix == oper.indices[k]
    IN  (IF ix.absolute THEN ix.index ELSE 0)
        + (IF ix.relative THEN SIntValue(GetSrc(input, ix.operand, InputOp).uv[1]) ELSE 0)

\* the destination names no writable register of the input state
Unresolvable(d) ==
    \/ d.type = "TEMP" /\ EffectiveIndex(d, 1) \notin 0..(Len(input.registers) - 1)
    \/ /\ d.type = "INDEXABLE_TEMP"
       /\ \/ EffectiveIndex(d, 1) \notin 0..(Len(input.indexableTemps) - 1)
          \/ EffectiveIndex(d, 2)
               \notin 0..(Len(input.indexableTemps[EffectiveIndex(d, 1) + 1]) - 1)
    \/ d.type = "OUTPUT" /\ EffectiveIndex(d, 1) \notin 0..(Len(input.outputs) - 1)
    \/ d.type \in {"INPUT", "CONSTANT_BUFFER", "NULL"}

\* C9: SetDst to a destination that does not resolve to a writable register
\* (an index outside the declared range, also a relative index that goes
\* negative; an Input or ConstantBuffer operand; a Null operand) writes no
\* register or output component and appends nothing to modified; the step
\* still completes.
C9_UnresolvedDstWritesNothing ==
    (WroteDst /\ Unresolvable(InputDst)) =>
        /\ registers = input.registers
        /\ indexableTemps = input.indexableTemps
        /\ outputs = input.outputs
        /\ modified = <<>>
        /\ nextInstruction = input.nextInstruction + 1

\* a mov to a temporary whose relative index went negative, with a value
\* that differs from every register
C9_Witness ==
    /\ WroteDst
    /\ InputDst.type = "TEMP"
    /\ InputDst.indices[1].relative
    /\ EffectiveIndex(InputDst, 1) < 0
    /\ \A i \in 1..Len(input.registers) :
          input.registers[i] # GetSrc(input, InputOp.operands[2], InputOp).uv

\* the value the executed instruction hands to SetDst (mov and add)
InputVal ==
    LET a == GetSrc(input, InputOp.operands[2], InputOp)
        v == IF InputOp.operation = "MOV" THEN a
             ELSE add(a, GetSrc(input, InputOp.operands[3], InputOp),
                      OperationType(InputOp.operation))
    IN  IF InputOp.saturate THEN sat(v, OperationType(InputOp.operation)) ELSE v

\* the bits SetDst stores for component k of that value
StoredBits(k) ==
    IF OperationFlushing(InputOp.operation) /\ InputVal.type = "Float"
    THEN flush_denorm(InputVal.uv[k + 1])
    ELSE InputVal.uv[k + 1]

\* the components the destination mask selects
MaskSet(d) == {c \in 0..3 : \E k \in 1..4 : d.comps[k] = c}

InputTarget == DstTarget(input, InputDst, ResolveIndices(input, InputDst, InputOp))
DstBefore == TargetVar(input, InputTarget)
DstAfter == TargetVar(LaneState, InputTarget)

\* the last call was a mov or add whose destination resolved
WroteRegister ==
    /\ WroteDst
    /\ InputOp.operation \in {"MOV", "ADD", "IADD"}
    /\ ~Unresolvable(InputDst)

\* a one-component mask c takes value component 0
OneComponentWrite(d) ==
    LET c == CHOOSE x \in MaskSet(d) : TRUE
    IN  /\ DstAfter[c + 1] = StoredBits(0)
        /\ \A i \in 0..3 \ {c} : DstAfter[i + 1] = DstBefore[i + 1]

\* any other mask takes value component i for each masked i
ComponentwiseWrite(d) ==
    /\ \A i \in MaskSet(d) : DstAfter[i + 1] = StoredBits(i)
    /\ \A i \in 0..3 \ MaskSet(d) : DstAfter[i + 1] = DstBefore[i + 1]

\* C10 as stated: a mask selecting exactly one component c writes value
\* component 0 into destination component c; any other mask writes value
\* component i into destination component i for each masked i; components
\* outside the mask keep their bits.
C10_MaskedWrite ==
    WroteRegister =>
        IF Cardinality(MaskSet(InputDst)) = 1
        THEN OneComponentWrite(InputDst)
        ELSE ComponentwiseWrite(InputDst)

\* C10 amended: as stated for every mask that selects at least one
\* component; a destination that selects no component (a scalar destination
\* such as oDepth) has value component 0 written into its component 0 and
\* keeps its other components.
C10_MaskedWriteAmended ==
    WroteRegister =>
        IF Cardinality(MaskSet(InputDst)) = 1
        THEN OneComponentWrite(InputDst)
        ELSE IF MaskSet(InputDst) = {}
        THEN /\ DstAfter[1] = StoredBits(0)
             /\ \A i \in 1..3 : DstAfter[i + 1] = DstBefore[i + 1]
        ELSE ComponentwiseWrite(InputDst)

\* a one-component mask other than x has taken value component 0, which
\* differs from the value component of its own position, and a two-component
\* mask case and a maskless case exist as well
C10_Witness ==
    /\ WroteRegister
    /\ InputOp.operation = "MOV"
    /\ MaskSet(InputDst) = {1}
    /\ InputVal.uv[1] # InputVal.uv[2]
    /\ DstAfter[2] = InputVal.uv[1]
    /\ DstBefore[2] # InputVal.uv[1]

-----------------------------------------------------------------------------
(* C11, C12 *)

DoubleNarrowOps == {"DTOF", "DTOI", "DTOU", "DEQ", "DNE", "DGE", "DLT"}

\* the last call executed a double-to-narrow instruction
WroteNarrow == Stepped /\ lastStep = "step" /\ InputOp.operation \in DoubleNarrowOps

\* the words the instruction can compute from double k (1 or 2) of its
\* sources as read from the input state
NarrowResults(k) ==
    LET a == DoubleGet(GetSrc(input, InputOp.operands[2], InputOp))[k]
    IN  IF InputOp.operation \in {"DTOF", "DTOI", "DTOU"}
        THEN {ConvertDouble(InputOp.operation, a, u) : u \in UndefinedConversions}
        ELSE {CompareDouble(InputOp.operation, a,
                            DoubleGet(GetSrc(input, InputOp.operands[3], InputOp))[k])}

\* C11: a double-to-narrow instruction with a two-component destination mask
\* {c0, c1} leaves the result for the first double in destination component
\* c0 and the result for the second double in c1, and the other two
\* destination components unchanged.
C11_DoubleMaskPair ==
    (WroteNarrow /\ Cardinality(MaskSet(InputDst)) = 2) =>
        /\ DstAfter[InputDst.comps[1] + 1] \in NarrowResults(1)
        /\ DstAfter[InputDst.comps[2] + 1] \in NarrowResults(2)
        /\ \A i \in 0..3 \ MaskSet(InputDst) : DstAfter[i + 1] = DstBefore[i + 1]

\* a conversion under the mask .yw has put two different non-zero results in
\* y and w
C11_Witness ==
    /\ WroteNarrow
    /\ InputOp.operation = "DTOU"
    /\ MaskSet(InputDst) = {1, 3}
    /\ DstAfter[2] = One32
    /\ DstAfter[4] = <<0, 2>>
    /\ DstAfter[1] = Float1 /\ DstAfter[3] = Float3

\* C12: a double-to-narrow instruction with a single-component destination
\* mask c leaves the result computed from the first double in destination
\* component c, for every c in {x, y, z, w}.
C12_DoubleMaskSingle ==
    (WroteNarrow /\ Cardinality(MaskSet(InputDst)) = 1) =>
        DstAfter[InputDst.comps[1] + 1] \in NarrowResults(1)

-----------------------------------------------------------------------------
(* C13 *)

\* operand k + 1 of the executed instruction, the one srcOpers[k] was read from
SrcOperand(k) == InputOp.operands[k + 1]

\* the operand names a temporary by an absolute index within the file
PlainTemp(oper) ==
    /\ oper.type = "TEMP"
    /\ ~oper.indices[1].relative
    /\ oper.indices[1].index < Len(input.registers)

\* the operand is read as it is stored: no modifier, no flush
ReadVerbatim(oper) == oper.modifier = "NONE" /\ ~OperationFlushing(InputOp.operation)

\* instructions that read an operand through GetSrc and have no destination
ReadOnlyOps == {"IF", "SWITCH", "CASE", "BREAKC", "CONTINUEC", "RETC", "DISCARD"}

\* C13: for every operand and register contents, GetSrc's result component i
\* equals source component swizzle[i], or source component i when slot i is
\* unspecified; the column count is 1 exactly when slot 0 is specified and
\* slots 1..3 are unspecified, otherwise 4; the read changes no state.
C13_GetSrcSwizzle ==
    (Stepped /\ lastStep = "step") =>
      /\ InputOp.operation \in ReadOnlyOps =>
            /\ registers = input.registers
            /\ indexableTemps = input.indexableTemps
            /\ outputs = input.outputs
      /\ \A k \in 1..Len(srcOpers) :
            LET oper == SrcOperand(k)
                reg == input.registers[oper.indices[1].index + 1]
            IN  /\ srcOpers[k].columns =
                      IF /\ oper.comps[1] # NoComp
                         /\ \A i \in 2..4 : oper.comps[i] = NoComp
                      THEN 1 ELSE 4
                /\ (PlainTemp(oper) /\ ReadVerbatim(oper)) =>
                      \A i \in 1..4 :
                         srcOpers[k].uv[i] =
                            IF oper.comps[i] = NoComp THEN reg[i]
                            ELSE reg[oper.comps[i] + 1]

\* a swizzle that both permutes and passes a slot through positionally
C13_Witness ==
    /\ Stepped /\ lastStep = "step"
    /\ InputOp.operation = "MOV"
    /\ SrcOperand(1).comps = <<3, NoComp, 0, 0>>
    /\ srcOpers[1].uv = <<Float4, Float2, Float1, Float1>>
    /\ srcOpers[1].columns = 4

-----------------------------------------------------------------------------
(* C14 *)

\* C14: when the math or sampling oracle declines, the step makes no
\* progress: the returned state has the nextInstruction of the input state
\* and no register or output is written.
C14_OracleDecline ==
    (Stepped /\ lastStep = "declined") =>
        /\ nextInstruction = input.nextInstruction
        /\ registers = input.registers
        /\ indexableTemps = input.indexableTemps
        /\ outputs = input.outputs

-----------------------------------------------------------------------------
(* C15, C16, C17 *)

\* the register operand k of the executed instruction names, after and
\* before the call
TargetOf(k) ==
    DstTarget(input, InputOp.operands[k],
              ResolveIndices(input, InputOp.operands[k], InputOp))
After(k) == TargetVar(LaneState, TargetOf(k))
Before(k) == TargetVar(input, TargetOf(k))

\* destination operand k is not null and its mask selects component i (1..4)
Written(k, i) ==
    /\ InputOp.operands[k].type # "NULL"
    /\ (i - 1) \in MaskSet(InputOp.operands[k])

\* the last call executed the two-destination instruction o to its end
WroteTwo(o) == Stepped /\ lastStep = "step" /\ InputOp.operation = o

\* of the two destinations, only the registers they name have changed, and
\* of those only the masked components
OnlyMaskedChanged ==
    /\ \A j \in 1..Len(registers) :
          (\A k \in {1, 2} : \/ InputOp.operands[k].type = "NULL"
                             \/ InputOp.operands[k].indices[1].index # j - 1)
             => registers[j] = input.registers[j]
    /\ \A k \in {1, 2}, i \in 1..4 :
          (InputOp.operands[k].type # "NULL" /\ ~Written(k, i))
             => After(k)[i] = Before(k)[i]

\* q * d + r = n in the integers, and r < d
ExactQuotRem(n, d, q, r) ==
    LET p == WordMulWide(q, d)
    IN  /\ p[1] = Zero32
        /\ WordGeq(n, p[2])
        /\ WordSub(n, p[2]) = r
        /\ ~WordGeq(r, d)

\* C15: udiv, per component: a zero divisor puts 0xffffffff in the quotient
\* and in the remainder destination and the step completes; a non-zero
\* divisor gives quotient * divisor + remainder = dividend with
\* remainder < divisor; components are independent and a null quotient or
\* remainder destination is skipped.
C15_UDiv ==
    (Stepped /\ InputOp.operation = "UDIV") =>
        /\ lastStep = "step"
        /\ nextInstruction = input.nextInstruction + 1
        /\ OnlyMaskedChanged
        /\ \A i \in 1..4 :
              LET n == srcOpers[2].uv[i]
                  d == srcOpers[3].uv[i]
                  q == IF Written(1, i) THEN After(1)[i] ELSE WordDiv(n, d)
                  r == IF Written(2, i) THEN After(2)[i]
                       ELSE WordSub(n, WordMul(q, d))
              IN  IF d = Zero32
                  THEN /\ Written(1, i) => After(1)[i] = MinusOne32
                       /\ Written(2, i) => After(2)[i] = MinusOne32
                  ELSE ExactQuotRem(n, d, q, r)

\* one udiv has divided 0xffffffff by 2 and by 3, 1 by 0xffff, and a word by
\* zero
C15_Witness ==
    /\ WroteTwo("UDIV")
    /\ Written(1, 1) /\ Written(2, 1)
    /\ srcOpers[2].uv = <<MinusOne32, MinusOne32, One32, <<4660, 22136>> >>
    /\ srcOpers[3].uv = << <<0, 2>>, <<0, 3>>, <<0, 65535>>, Zero32>>
    /\ After(1) = << <<32767, 65535>>, <<21845, 21845>>, Zero32, MinusOne32>>
    /\ After(2) = <<One32, Zero32, One32, MinusOne32>>

\* C16: uaddc, per component i: the primary destination receives
\* (a_i + b_i) mod 2^32 of the two sources, and the carry destination, when
\* not null, receives 1 if a_i + b_i >= 2^32 and 0 otherwise.
C16_UAddC ==
    WroteTwo("UADDC") =>
        \A i \in 1..4 :
            LET a == srcOpers[2].uv[i]
                b == srcOpers[3].uv[i]
                sum == WordAdd(a, b)
            IN  /\ Written(1, i) => After(1)[i] = sum
                /\ Written(2, i) =>
                      After(2)[i] = IF WordGeq(sum, a) THEN Zero32 ELSE One32

\* C17: usubb, per component i: the primary destination receives
\* (a_i - b_i) mod 2^32 from component i of the sources, and the borrow
\* destination, when not null, receives 1 if a_i < b_i and 0 otherwise.
C17_USubB ==
    WroteTwo("USUBB") =>
        \A i \in 1..4 :
            LET a == srcOpers[2].uv[i]
                b == srcOpers[3].uv[i]
            IN  /\ Written(1, i) => After(1)[i] = WordSub(a, b)
                /\ Written(2, i) =>
                      After(2)[i] = IF WordGeq(a, b) THEN Zero32 ELSE One32

-----------------------------------------------------------------------------
(* C18, C19 *)

CounterOps == {"IMM_ATOMIC_ALLOC", "IMM_ATOMIC_CONSUME"}

\* the last call executed an alloc or consume
WroteCounter == Stepped /\ lastStep = "step" /\ InputOp.operation \in CounterOps

\* the hidden counter the instruction addresses, before and after the call
CounterSlot == InputOp.operands[2].indices[1].index + 1
CounterBefore == globalIn.uavs[CounterSlot].hiddenCounter
CounterAfter == global.uavs[CounterSlot].hiddenCounter

\* the counter moved by one in the instruction's direction and nothing else
\* of the GlobalState changed
CounterMoved ==
    /\ CounterAfter = WordAdd(CounterBefore,
                              IF InputOp.operation = "IMM_ATOMIC_ALLOC"
                              THEN One32 ELSE MinusOne32)
    /\ global = [globalIn EXCEPT !.uavs[CounterSlot].hiddenCounter = CounterAfter]

\* every masked destination component holds w
DstHolds(w) == \A i \in 1..4 : Written(1, i) => After(1)[i] = w

\* C18 as stated: imm_atomic_alloc increments and imm_atomic_consume
\* decrements the addressed UAV's hidden counter by exactly 1, and each
\* writes to its destination the counter value held before that mutation.
C18_HiddenCounter ==
    WroteCounter => CounterMoved /\ DstHolds(CounterBefore)

\* C18 amended: imm_atomic_alloc increments and imm_atomic_consume
\* decrements the addressed UAV's hidden counter by exactly 1; alloc writes
\* to its destination the value held before the increment, consume the value
\* held after the decrement.
C18_HiddenCounterAmended ==
    WroteCounter =>
        /\ CounterMoved
        /\ DstHolds(IF InputOp.operation = "IMM_ATOMIC_ALLOC"
                    THEN CounterBefore ELSE CounterAfter)

\* an alloc has taken the counter from 5 to 6 and left 5 in r0.x
C18_Witness ==
    /\ WroteCounter
    /\ InputOp.operation = "IMM_ATOMIC_ALLOC"
    /\ CounterBefore = Five32
    /\ CounterAfter = <<0, 6>>
    /\ Written(1, 1)
    /\ Before(1)[1] # Five32
    /\ After(1)[1] = Five32

\* C19: a lane whose done flag is set leaves all of the GlobalState unchanged
\* in every step it executes (atomic, alloc/consume, typed/raw/structured
\* store): UAV bytes, group-shared bytes and UAV hidden counters.
C19_DoneLaneLeavesGlobal ==
    (Stepped /\ input.done) => global = globalIn

-----------------------------------------------------------------------------
(* C20 *)

\* the last call executed a load
LoadStep == Stepped /\ InputOp.operation \in LoadOps

\* the view the load names
LoadView ==
    IF InputOp.operation = "LD_STRUCTURED" THEN InputOp.operands[4]
    ELSE InputOp.operands[3]
LoadSlot == LoadView.indices[1].index + 1

\* the load reads texels of a texture UAV
TextureLoad ==
    /\ LoadView.type = "UNORDERED_ACCESS_VIEW"
    /\ globalIn.uavs[LoadSlot].tex

\* the element count of the view in the unit of the index: bytes for ld_raw
\* of a buffer view, elements otherwise, nothing for group-shared memory
\* that is not bound
ElementCount ==
    IF LoadView.type = "THREAD_GROUP_SHARED_MEMORY"
    THEN IF LoadSlot <= Len(globalIn.groupshared)
         THEN globalIn.groupshared[LoadSlot].count ELSE 0
    ELSE LET v == IF LoadView.type = "RESOURCE" THEN globalIn.srvs[LoadSlot]
                  ELSE globalIn.uavs[LoadSlot]
         IN  IF InputOp.operation = "LD_RAW" THEN 4 * v.numElements
             ELSE v.numElements

\* the byte offset of the addressed texel
TexelOffset ==
    LET u == globalIn.uavs[LoadSlot]
    IN  ByteDistance(srcOpers[1].uv[1]) * 4
        + ByteDistance(srcOpers[1].uv[2]) * u.rowPitch
        + ByteDistance(srcOpers[1].uv[3]) * u.depthPitch

\* the load addresses nothing the view holds
\* the load names the group-shared region one past the last: no view, and no
\* element count to compare the index with (the subject of C38)
StrayLoad ==
    /\ LoadView.type = "THREAD_GROUP_SHARED_MEMORY"
    /\ LoadSlot = Len(globalIn.groupshared) + 1

OutOfRangeLoad ==
    IF TextureLoad
    THEN TexelOffset >= Len(globalIn.uavs[LoadSlot].data)
    ELSE ~StrayLoad /\ ~WordLess(srcOpers[1].uv[1], ElementCount)

\* C20: ld_raw, ld_structured or ld_uav_typed whose element index is not
\* below the view's element count (or whose texture offset is past the UAV
\* data) writes an all-zero value to its destination, reads no buffer byte,
\* and the step completes with nextInstruction advanced by one.
C20_OutOfRangeLoad ==
    (LoadStep /\ OutOfRangeLoad) =>
        /\ lastStep = "step"
        /\ nextInstruction = input.nextInstruction + 1
        /\ DstHolds(Zero32)
        /\ \A i \in 1..4 : ~Written(1, i) => After(1)[i] = Before(1)[i]
        /\ global = globalIn

\* a raw load at the byte address just past the last element has zeroed a
\* register that held no zero
C20_Witness ==
    /\ LoadStep
    /\ InputOp.operation = "LD_RAW"
    /\ LoadView.type = "UNORDERED_ACCESS_VIEW"
    /\ srcOpers[1].uv[1] = <<0, 8>>
    /\ ElementCount = 8
    /\ \A i \in 1..4 : Before(1)[i] # Zero32
    /\ After(1) = Splat(Zero32)

-----------------------------------------------------------------------------
(* C21 *)

AtomicOps == {"ATOMIC_IADD", "IMM_ATOMIC_IADD"}

\* the last call executed a store or an atomic
WriteStep == Stepped /\ InputOp.operation \in StoreOps \cup AtomicOps

\* the view the store or atomic names and the address it gives
WriteView ==
    IF InputOp.operation = "IMM_ATOMIC_IADD" THEN InputOp.operands[2]
    ELSE InputOp.operands[1]
WriteSlot == WriteView.indices[1].index + 1
WriteAddress ==
    IF InputOp.operation = "IMM_ATOMIC_IADD" THEN srcOpers[2] ELSE srcOpers[1]

\* the element count of the written view in the unit of the index: bytes for
\* store_raw, elements otherwise, nothing for group-shared memory that is
\* not bound
WriteCount ==
    IF WriteView.type = "THREAD_GROUP_SHARED_MEMORY"
    THEN IF WriteSlot <= Len(globalIn.groupshared)
         THEN globalIn.groupshared[WriteSlot].count ELSE 0
    ELSE IF InputOp.operation = "STORE_RAW"
    THEN 4 * globalIn.uavs[WriteSlot].numElements
    ELSE globalIn.uavs[WriteSlot].numElements

\* the store or atomic addresses nothing the view holds
OutOfRangeWrite ==
    IF /\ WriteView.type = "UNORDERED_ACCESS_VIEW"
       /\ InputOp.operation = "STORE_UAV_TYPED"
       /\ globalIn.uavs[WriteSlot].tex
    THEN LET u == globalIn.uavs[WriteSlot]
         IN  ByteDistance(WriteAddress.uv[1]) * 4
             + ByteDistance(WriteAddress.uv[2]) * u.rowPitch
             + ByteDistance(WriteAddress.uv[3]) * u.depthPitch >= Len(u.data)
    ELSE ~WordLess(WriteAddress.uv[1], WriteCount)

\* C21: a store (store_raw, store_structured, store_uav_typed) or an atomic
\* whose addressed element index lies outside the target UAV or group-shared
\* region changes no byte of the GlobalState; an immediate atomic also
\* leaves its original-value destination register unwritten.
C21_OutOfRangeWrite ==
    (WriteStep /\ OutOfRangeWrite) =>
        /\ global = globalIn
        /\ InputOp.operation = "IMM_ATOMIC_IADD" =>
               /\ registers = input.registers
               /\ modified = <<>>

\* the same for the stores alone
OutOfRangeStoreSkipped ==
    (WriteStep /\ InputOp.operation \in StoreOps /\ OutOfRangeWrite) =>
        global = globalIn

-----------------------------------------------------------------------------
(* C22, C23 *)

\* the last call executed a derivative instruction
DerivStep == Stepped /\ InputOp.operation \in DerivXOps \cup DerivYOps

\* the quad that call was given: the caller's array with the State the call
\* was made on in its own slot
QuadIn == [quad EXCEPT ![quadIndex + 1] = input]

\* the source operand of the derivative as lane k (0..3) of the quad holds it
LaneSource(k) == GetSrc(QuadIn[k + 1], InputOp.operands[2], InputOp).uv

\* the float difference of the operand between lanes a and b, component i
LaneDifference(a, b, i) ==
    flush_denorm(FloatAdd(LaneSource(a)[i], FloatNeg(LaneSource(b)[i])))

\* the destination has taken the difference between lanes a and b: a
\* one-component mask takes its first component, any other mask component i
\* for each masked i; the other components keep their bits
DstTakesDifference(a, b) ==
    /\ IF Cardinality(MaskSet(InputOp.operands[1])) = 1
       THEN \A i \in 1..4 : Written(1, i) => After(1)[i] = LaneDifference(a, b, 1)
       ELSE \A i \in 1..4 : Written(1, i) => After(1)[i] = LaneDifference(a, b, i)
    /\ \A i \in 1..4 : ~Written(1, i) => After(1)[i] = Before(1)[i]

C23_DerivativeWithoutQuad ==
    (DerivStep /\ quad = <<>>) =>
        /\ lastStep = "step"
        /\ registers = input.registers
        /\ indexableTemps = input.indexableTemps
        /\ outputs = input.outputs
        /\ modified = <<>>
        /\ nextInstruction = input.nextInstruction + 1

\* a derivative has been executed without a quad by a lane whose destination
\* holds no zero
C23_Witness ==
    /\ DerivStep
    /\ quad = <<>>
    /\ \A i \in 1..4 : Written(1, i) /\ Before(1)[i] # Zero32
    /\ nextInstruction = 1

-----------------------------------------------------------------------------
(* C24, C25 *)

\* C24: flush_denorm maps a pattern whose exponent field is 0 to the zero
\* with the same sign bit, returns every other pattern (normal numbers,
\* infinities, NaNs) bit for bit, and flushing its result again changes
\* nothing.
C24_FlushDenorm ==
    call.fn = "flush_denorm" =>
        LET x == call.args[1]
            r == call.result
        IN  /\ ExpField(x) = 0 => r = <<SignBit(x) * 32768, 0>>
            /\ ExpField(x) # 0 => r = x
            /\ flush_denorm(r) = r

\* the negative denormal 0x80400000 has been flushed to -0
C24_Witness ==
    /\ call.fn = "flush_denorm"
    /\ call.args[1] = <<32832, 0>>
    /\ call.result = NegZero32

\* r is one of a and b and no other operand lies below it (above it, for
\* dir = -1) in the order of the floats
Extremum(r, a, b, dir) ==
    /\ r \in {a, b}
    /\ dir * FloatKey(r) <= dir * FloatKey(a)
    /\ dir * FloatKey(r) <= dir * FloatKey(b)

\* the NaN rule of min and max
NaNRule(a, b, r, dir) ==
    IF IsNaN(a) /\ IsNaN(b) THEN IsNaN(r)
    ELSE IF IsNaN(a) THEN r = b
    ELSE IF IsNaN(b) THEN r = a
    ELSE Extremum(r, a, b, dir)

\* C25: dxbc_min and dxbc_max return the other operand when exactly one
\* operand is NaN, NaN when both are, and the ordinary minimum or maximum
\* otherwise; sat on a Float maps NaN and -Inf to 0 and +Inf to 1.
C25_MinMaxNaN ==
    /\ call.fn = "dxbc_min" => NaNRule(call.args[1], call.args[2], call.result, 1)
    /\ call.fn = "dxbc_max" => NaNRule(call.args[1], call.args[2], call.result, -1)
    /\ call.fn = "sat" =>
          LET x == call.args[1]
          IN  /\ (IsNaN(x) \/ x = FloatNeg(FloatInf)) => call.result = Splat(Zero32)
              /\ x = FloatInf => call.result = Splat(Float1)

\* min of a NaN and 2.0 has returned 2.0
C25_Witness ==
    /\ call.fn = "dxbc_min"
    /\ call.args = <<FloatNaN, Float2>>
    /\ call.result = Float2

-----------------------------------------------------------------------------
(* C26 *)

\* C26: for every opcode, OperationFlushing true implies OperationType
\* Float; every opcode typed SInt, UInt or Double, and mov, movc, ld and
\* ld_ms, do not flush; an opcode listed in neither table is typed Float and
\* does not flush, and the classifiers return for it.
C26_ClassifierConsistency ==
    call.fn = "classify" =>
        LET op == call.args[1]
            type == call.result[1]
            flushing == call.result[2]
        IN  /\ flushing => type = "Float"
            /\ type \in {"SInt", "UInt", "Double"} => ~flushing
            /\ op \in {"MOV", "MOVC", "LD", "LD_MS"} => ~flushing
            /\ op \in UnlistedOps => type = "Float" /\ ~flushing

\* itof, typed SInt, has been classified, and so has an opcode neither table
\* lists
C26_Witness ==
    /\ call.fn = "classify"
    /\ \/ call.args[1] = "ITOF" /\ call.result = <<"SInt", FALSE>>
       \/ call.args[1] = "EMIT" /\ call.result = <<"Float", FALSE>>

-----------------------------------------------------------------------------
(* C27 *)

\* the lanes of the quad as they stand, the lane the caller works on included
Lanes == [quad EXCEPT ![quadIndex + 1] = LaneState]

\* every lane of a quad runs one imm_atomic_alloc r0.x, u0
AllocQuad ==
    /\ quad # <<>>
    /\ NumInstructions = 1
    /\ OpAt(0) = "IMM_ATOMIC_ALLOC"

\* the lanes that have executed their alloc, and the values they were given
Allocated == {k \in 1..Len(quad) : Lanes[k].nextInstruction >= 1}
AllocValues == {Lanes[k].registers[1][1] : k \in Allocated}

\* the counter of u0 less the number of allocs executed: the value c the
\* counter started from
AllocBase == WordSub(global.uavs[1].hiddenCounter, W(Cardinality(Allocated)))

\* the n lanes stepped so far hold n distinct values, c to c + n - 1
AllocDistinct ==
    /\ Cardinality(AllocValues) = Cardinality(Allocated)
    /\ AllocValues = {WordAdd(AllocBase, W(i)) :
                         i \in 0..(Cardinality(Allocated) - 1)}

\* C27: K lanes share one GlobalState and each executes one
\* imm_atomic_alloc on the same UAV, whose counter starts at c: in every
\* serialized interleaving the values written to the lanes' destinations
\* are pairwise distinct and form c .. c+K-1 (modulo 2^32), the counter ends
\* at c+K, and each lane observes the mutations of the lanes stepped before.
C27_CrossLaneCounter ==
    /\ [](AllocQuad => AllocDistinct)
    /\ [][AllocQuad => AllocBase' = AllocBase]_vars

\* all four lanes have allocated from a counter that started at 5, lane 3
\* first and lane 0 last
C27_Witness ==
    /\ AllocQuad
    /\ Allocated = 1..4
    /\ global.uavs[1].hiddenCounter = <<0, 9>>
    /\ Lanes[4].registers[1][1] = Five32
    /\ Lanes[1].registers[1][1] = <<0, 8>>

-----------------------------------------------------------------------------
(* C28, C29, C30 *)

Greatest(S) == CHOOSE x \in S : \A y \in S : x >= y

\* the index of the instruction that opens the innermost block around
\* instruction i (for a closing instruction: the block it closes)
Opener(open, close, i) ==
    Greatest({j \in 0..(i - 1) :
                /\ OpAt(j) \in open
                /\ NestDepth(open, close, j) = NestDepth(open, close, i) - 1})

ElseStep == Stepped /\ InputOp.operation = "ELSE"

\* C28: executing an ELSE sets nextInstruction to the index immediately
\* after the ENDIF matching the enclosing IF, skipping the whole else-block
\* including any complete nested if/else/endif blocks in it.
C28_ElseResolution ==
    ElseStep =>
        nextInstruction = Closer({"IF"}, {"ENDIF"}, input.nextInstruction, TRUE) + 1

\* an ELSE has been executed whose else-block holds a complete nested
\* if/endif block, and execution resumed after the outer ENDIF
C28_Witness ==
    /\ ElseStep
    /\ \E j \in (input.nextInstruction + 1)..(nextInstruction - 3) :
          /\ OpAt(j) = "IF"
          /\ Closer({"IF"}, {"ENDIF"}, j, FALSE) < nextInstruction - 1
    /\ OpAt(nextInstruction - 1) = "ENDIF"

LoopBackStep == Stepped /\ InputOp.operation \in {"ENDLOOP", "CONTINUE", "CONTINUEC"}

ContinueTaken ==
    InputOp.operation = "CONTINUEC" => TestSatisfied(InputOp, InputTest)

\* C29: ENDLOOP sets nextInstruction to the index of its matching LOOP;
\* CONTINUE, and CONTINUEC whose test passes, set it to the index of the
\* innermost enclosing LOOP, skipping complete nested loop/endloop blocks
\* that precede it in the body; CONTINUEC whose test fails only advances by
\* one.
C29_LoopBackEdge ==
    LoopBackStep =>
        IF ContinueTaken
        THEN nextInstruction = Opener({"LOOP"}, {"ENDLOOP"}, input.nextInstruction)
        ELSE nextInstruction = input.nextInstruction + 1

\* a CONTINUE or passing CONTINUEC has jumped back to its enclosing LOOP
\* over a complete nested loop that precedes it in the body
C29_Witness ==
    /\ LoopBackStep
    /\ InputOp.operation \in {"CONTINUE", "CONTINUEC"}
    /\ ContinueTaken
    /\ OpAt(nextInstruction) = "LOOP"
    /\ \E j \in (nextInstruction + 1)..(input.nextInstruction - 1) :
          /\ OpAt(j) = "LOOP"
          /\ Closer({"LOOP"}, {"ENDLOOP"}, j, FALSE) < input.nextInstruction

\* a CONTINUEC whose test failed has advanced by one
ContinueNotTaken ==
    /\ LoopBackStep
    /\ ~ContinueTaken
    /\ nextInstruction = input.nextInstruction + 1

\* an ENDLOOP has jumped back to its matching LOOP
EndLoopTaken ==
    /\ LoopBackStep
    /\ InputOp.operation = "ENDLOOP"
    /\ OpAt(nextInstruction) = "LOOP"

SwitchStep == Stepped /\ InputOp.operation = "SWITCH"

SwitchClose == Closer({"SWITCH"}, {"ENDSWITCH"}, input.nextInstruction, FALSE)

\* C30: the CASE or DEFAULT label selected by a SWITCH belongs to that
\* switch block itself, never to a switch nested inside it nor to a switch
\* that starts after its ENDSWITCH; after the step nextInstruction lies
\* after the SWITCH and no further than the index just past its matching
\* ENDSWITCH.
C30_SwitchOwnLabel ==
    SwitchStep =>
        /\ nextInstruction > input.nextInstruction
        /\ nextInstruction <= SwitchClose + 1
        /\ \/ nextInstruction = input.nextInstruction + 1
           \/ \E j \in OwnLabels(input.nextInstruction) :
                 nextInstruction = FirstNonLabel(j)

\* the part of C30 about nested switches: a SWITCH whose own block has a
\* label to select never lands inside a switch nested in its block
SwitchSkipsNested ==
    (SwitchStep /\ nextInstruction <= SwitchClose) =>
        NestDepth({"SWITCH"}, {"ENDSWITCH"}, nextInstruction)
            <= NestDepth({"SWITCH"}, {"ENDSWITCH"}, input.nextInstruction) + 1

\* a SWITCH has landed beyond the instruction after its ENDSWITCH
SwitchLeftBlock == SwitchStep /\ nextInstruction > SwitchClose + 1

-----------------------------------------------------------------------------
(* C31 *)

SwitchNoLabel ==
    /\ SwitchStep
    /\ MatchingCases(input.nextInstruction, InputTest) = {}
    /\ OwnDefaults(input.nextInstruction) = {}

\* C31: a SWITCH with no matching CASE and no DEFAULT in its block executes
\* none of its case bodies: after the step nextInstruction is the index just
\* past its matching ENDSWITCH.
C31_SwitchNoMatch == SwitchNoLabel => nextInstruction = SwitchClose + 1

\* a SWITCH with no label to select has stepped into its own block
SwitchFellIntoBlock ==
    /\ SwitchNoLabel
    /\ nextInstruction = input.nextInstruction + 1
    /\ nextInstruction <= SwitchClose

-----------------------------------------------------------------------------
(* C32 *)

PointerInBounds == nextInstruction >= 0 /\ nextInstruction <= NumInstructions

Jumps == {"BREAK", "BREAKC", "CONTINUE", "CONTINUEC"}

LoopDepth(i) == NestDepth({"LOOP"}, {"ENDLOOP"}, i)
SwitchDepth(i) == NestDepth({"SWITCH"}, {"ENDSWITCH"}, i)

\* every BREAK and CONTINUE lies inside a loop or a switch
JumpsEnclosed ==
    \A i \in 0..(NumInstructions - 1) :
        OpAt(i) \in Jumps => LoopDepth(i) >= 1 \/ SwitchDepth(i) >= 1

\* every CONTINUE lies inside a loop
ContinuesInLoops ==
    \A i \in 0..(NumInstructions - 1) :
        OpAt(i) \in {"CONTINUE", "CONTINUEC"} => LoopDepth(i) >= 1

StrayContinue ==
    /\ Stepped
    /\ InputOp.operation \in {"CONTINUE", "CONTINUEC"}
    /\ LoopDepth(input.nextInstruction) = 0
    /\ SwitchDepth(input.nextInstruction) >= 1
    /\ nextInstruction = -1

-----------------------------------------------------------------------------
(* C33 *)

\* the stream holds no LOOP, ENDLOOP, CONTINUE or CONTINUEC
LoopFree ==
    \A i \in 0..(NumInstructions - 1) :
        OpAt(i) \notin {"LOOP", "ENDLOOP", "CONTINUE", "CONTINUEC"}

\* the step just taken moved the pointer forward
StepsForward == (Stepped /\ LoopFree) => nextInstruction > input.nextInstruction

\* C33: for a stream of length N containing no LOOP, ENDLOOP, CONTINUE or
\* CONTINUEC, nextInstruction strictly increases on every non-terminal step
\* (IF, ELSE, BREAK and SWITCH only jump forward), so repeated GetNext
\* reaches the terminal state nextInstruction >= N; as the pointer starts at
\* 0 and grows by at least one per step this takes at most N steps.
C33_LoopFreeTermination ==
    /\ []StepsForward
    /\ LoopFree => <>(nextInstruction >= NumInstructions)

\* a loop-free stream has been run to its end, the last step being a forward
\* jump of an IF, ELSE, BREAK or SWITCH over at least one instruction
C33_Witness ==
    /\ Stepped
    /\ LoopFree
    /\ InputOp.operation \in {"IF", "ELSE", "BREAK", "BREAKC", "SWITCH"}
    /\ nextInstruction = NumInstructions
    /\ nextInstruction > input.nextInstruction + 1

-----------------------------------------------------------------------------
(* C34 *)

\* opcodes of the model with two destinations, operands 0 and 1
TwoDstOps == {"UDIV", "UADDC", "USUBB", "SINCOS"}

\* opcodes of the model that never call SetDst
NoDstOps ==
    {"CASE", "DEFAULT", "LOOP", "ENDSWITCH", "ENDIF", "NOP", "SWITCH", "CONTINUE",
     "CONTINUEC", "ENDLOOP", "BREAK", "BREAKC", "IF", "ELSE", "DISCARD", "RET",
     "RETC", "ATOMIC_IADD"} \cup StoreOps

\* the positions of the destination operands of the instruction the call
\* executed
InputDsts ==
    IF InputOp.operation \in NoDstOps THEN {}
    ELSE IF InputOp.operation \in TwoDstOps THEN {1, 2}
    ELSE {1}

MaskSelects(d, c) == \E k \in 1..4 : d.comps[k] = c

\* a destination that selects no component at all stands for component 0
ScalarSelects(d, c) == c = 0 /\ \A k \in 1..4 : d.comps[k] = NoComp

\* component c of the register (kind, a, b) is selected by the mask of a
\* destination operand; scalar: a maskless destination selects component 0
Selected(kind, a, b, c, scalar) ==
    \E k \in InputDsts :
        /\ TargetOf(k).kind = kind
        /\ TargetOf(k).a = a
        /\ TargetOf(k).b = b
        /\ \/ MaskSelects(InputOp.operands[k], c)
           \/ scalar /\ ScalarSelects(InputOp.operands[k], c)

\* every register, indexable-temporary and output component that is not
\* selected has the bits it had before the call
FrameKept(scalar) ==
    /\ \A r \in 1..Len(registers), c \in 0..3 :
          Selected("registers", r, 0, c, scalar)
          \/ registers[r][c + 1] = input.registers[r][c + 1]
    /\ \A f \in 1..Len(indexableTemps), m \in 1..NumTemps, c \in 0..3 :
          Selected("indexableTemps", f, m, c, scalar)
          \/ indexableTemps[f][m][c + 1] = input.indexableTemps[f][m][c + 1]
    /\ \A o \in 1..Len(outputs), c \in 0..3 :
          Selected("outputs", o, 0, c, scalar)
          \/ outputs[o][c + 1] = input.outputs[o][c + 1]

\* a GetNext call leaves the caller's array of lanes as it was
QuadKept == [][lastStep' # "init" => quad' = quad]_vars

\* C34 as stated: GetNext modifies neither the State it is called on nor the
\* sibling quad states; in the returned state every register,
\* indexable-temporary and output component not selected by the mask of a
\* destination operand of the executed instruction has its previous bits,
\* and flow-control, NOP and label instructions change no register at all.
C34_RegisterFrame == [](Stepped => FrameKept(FALSE)) /\ QuadKept

\* C34 amended: a destination operand that selects no component at all (a
\* scalar destination such as oDepth) counts as selecting component 0.
C34_RegisterFrameScalar == [](Stepped => FrameKept(TRUE)) /\ QuadKept

\* a derivative, computed from the sibling lanes, has changed one component
\* of a register under a one-component mask
C34_Witness ==
    /\ Stepped
    /\ quad # <<>>
    /\ InputOp.operation \in DerivXOps \cup DerivYOps
    /\ \E c \in 1..4 :
          /\ registers[1][c] # input.registers[1][c]
          /\ \A k \in (1..4) \ {c} : registers[1][k] = input.registers[1][k]

\* a write to a destination without a mask has changed component 0
MasklessWrite ==
    /\ Stepped
    /\ \E k \in InputDsts :
          /\ ScalarSelects(InputOp.operands[k], 0)
          /\ TargetOf(k).kind = "outputs"
          /\ outputs[TargetOf(k).a][1] # input.outputs[TargetOf(k).a][1]

\* a flow-control instruction or a label has been executed by a lane whose
\* registers hold non-zero words
FlowStepKeepsRegisters ==
    /\ Stepped
    /\ InputOp.operation \in {"IF", "SWITCH", "BREAKC", "ENDLOOP", "CASE"}
    /\ registers[1][1] # Zero32
    /\ registers = input.registers

-----------------------------------------------------------------------------
(* C35 *)

\* the call executed a RET, or a RETC or DISCARD whose test was satisfied
Terminated ==
    /\ Stepped
    /\ \/ InputOp.operation = "RET"
       \/ /\ InputOp.operation \in {"RETC", "DISCARD"}
          /\ TestSatisfied(InputOp, InputTest)

\* C35: done becomes true only when a RET executes or a RETC/DISCARD
\* executes with its test satisfied (the _nz forms on test != 0, the _z forms
\* on test == 0); no step resets done to false; and a lane for which
\* Finished() holds (done, or nextInstruction >= instruction count) is still
\* finished after the next GetNext call, hence after every later one.
C35_FinishedAbsorbing ==
    lastStep # "init" =>
        /\ (~input.done /\ done) => Terminated
        /\ Terminated => done
        /\ input.done => done
        /\ Finished(input) => Finished(LaneState)

\* a lane that was done with instructions left has executed one more
\* instruction and is still done
C35_Witness ==
    /\ Stepped
    /\ input.done
    /\ done
    /\ nextInstruction < NumInstructions

\* a DISCARD and a RETC whose tests failed have left done unset
TestFailedKeepsRunning ==
    /\ Stepped
    /\ InputOp.operation \in {"RETC", "DISCARD"}
    /\ ~TestSatisfied(InputOp, InputTest)
    /\ ~done

-----------------------------------------------------------------------------
(* C36 *)

\* destination operand k resolves to a register and component c (0..3) of it
\* is written: selected by the mask, or component 0 of a maskless destination
WrittenSlot(k, c) ==
    /\ TargetOf(k).kind # "none"
    /\ \/ MaskSelects(InputOp.operands[k], c)
       \/ ScalarSelects(InputOp.operands[k], c)

\* the component of the value that goes to destination component c: the
\* first one under a mask of at most one component, else component c
ValueSlot(k, c) ==
    IF Cardinality({j \in 1..4 : InputOp.operands[k].comps[j] # NoComp}) <= 1
    THEN 0 ELSE c

\* source operand k as GetSrc read it from the state the call started from
InputSrc(k) == GetSrc(input, InputOp.operands[k], InputOp)

\* the call executed a flushing instruction with a Float result
FlushingStep ==
    /\ Stepped
    /\ lastStep = "step"
    /\ OperationFlushing(InputOp.operation)
    /\ OperationType(InputOp.operation) = "Float"

\* C36: after an instruction for which OperationFlushing is true writes a
\* Float-typed result through SetDst, no written destination component holds
\* a denormal bit pattern: a denormal result or denormal source is stored as
\* the zero of the same sign (the sum of an add whose sources or result are
\* denormal is stored flushed), while MOV, which like MOVC is not a flushing
\* instruction, copies denormal bit patterns unchanged.
C36_FlushOnWrite ==
    /\ FlushingStep =>
          \A k \in InputDsts, c \in 0..3 :
              WrittenSlot(k, c) => ~IsDenormal(After(k)[c + 1])
    /\ (FlushingStep /\ InputOp.operation = "ADD" /\ ~InputOp.saturate) =>
          \A c \in 0..3 :
              (WrittenSlot(1, c) /\ ValueSlot(1, c) < InputSrc(2).columns) =>
                  LET sum == FloatAdd(flush_denorm(InputSrc(2).uv[ValueSlot(1, c) + 1]),
                                      flush_denorm(InputSrc(3).uv[ValueSlot(1, c) + 1]))
                  IN  After(1)[c + 1] =
                        IF IsDenormal(sum) THEN <<SignBit(sum) * 32768, 0>> ELSE sum
    /\ (Stepped /\ InputOp.operation = "MOV" /\ ~InputOp.saturate) =>
          \A c \in 0..3 :
              (WrittenSlot(1, c) /\ IsDenormal(InputSrc(2).uv[ValueSlot(1, c) + 1])) =>
                  After(1)[c + 1] = InputSrc(2).uv[ValueSlot(1, c) + 1]
    /\ ~OperationFlushing("MOV") /\ ~OperationFlushing("MOVC")

\* an add whose exact sum is a denormal has stored a zero in a register that
\* held none
C36_Witness ==
    /\ FlushingStep
    /\ InputOp.operation = "ADD"
    /\ \E c \in 0..3 :
          /\ WrittenSlot(1, c)
          /\ ValueSlot(1, c) < InputSrc(2).columns
          /\ IsDenormal(FloatAdd(InputSrc(2).uv[ValueSlot(1, c) + 1],
                                 InputSrc(3).uv[ValueSlot(1, c) + 1]))
          /\ Before(1)[c + 1] \notin {Zero32, NegZero32}
          /\ After(1)[c + 1] \in {Zero32, NegZero32}

\* a mov has copied a denormal into a register that held another word
DenormalCopied ==
    /\ Stepped
    /\ InputOp.operation = "MOV"
    /\ \E c \in 0..3 :
          /\ WrittenSlot(1, c)
          /\ IsDenormal(After(1)[c + 1])
          /\ Before(1)[c + 1] # After(1)[c + 1]

\* an instruction whose result came back denormal from the oracle has
\* stored a zero
OracleDenormalFlushed ==
    /\ FlushingStep
    /\ InputOp.operation \in {"RCP", "RSQ", "EXP", "LOG", "SAMPLE_L"}
    /\ \E c \in 0..3 :
          /\ WrittenSlot(1, c)
          /\ After(1)[c + 1] = Zero32
          /\ Before(1)[c + 1] # Zero32

-----------------------------------------------------------------------------
(* C37 *)

ShiftOps == {"ISHL", "ISHR", "USHR"}

ShiftStep == Stepped /\ InputOp.operation \in ShiftOps

\* word res is word x shifted by n as the opcode says, bit by bit
ShiftedBits(operation, x, n, res) ==
    \A j \in 0..31 :
        WordBit(res, j) =
            CASE operation = "ISHL" -> (IF j >= n THEN WordBit(x, j - n) ELSE 0)
              [] operation = "USHR" -> (IF j + n <= 31 THEN WordBit(x, j + n) ELSE 0)
              [] OTHER -> (IF j + n <= 31 THEN WordBit(x, j + n) ELSE WordBit(x, 31))

\* the shift operand is scalar: a 1-component immediate, or a register
\* operand selecting a single component
ScalarShift ==
    LET sh == InputOp.operands[3]
    IN  \/ sh.numComponents = 1
        \/ /\ sh.type # "IMMEDIATE32"
           /\ sh.comps[1] # NoComp
           /\ \A k \in 2..4 : sh.comps[k] = NoComp

\* the low 5 bits of component i (0..3) of the shift operand as read
ShiftCount(i) == InputSrc(3).uv[i + 1][2] % 32

\* every written destination component holds the value component shifted by
\* the count taken from shift component 0 (broadcast) or from its own slot
ShiftedBy(broadcast) ==
    \A c \in 0..3 :
        WrittenSlot(1, c) =>
            ShiftedBits(InputOp.operation, InputSrc(2).uv[ValueSlot(1, c) + 1],
                        ShiftCount(IF broadcast THEN 0 ELSE ValueSlot(1, c)),
                        After(1)[c + 1])

\* C37: ISHL, ISHR and USHR shift component i of the value by the low 5 bits
\* of the shift amount; when the shift operand is scalar (a 1-component
\* immediate, or a register operand selecting a single component) the x
\* shift amount is applied to all four components, otherwise component i
\* uses shift component i.
C37_Shifts == ShiftStep => ShiftedBy(ScalarShift)

\* what the code does: only a 1-component operand broadcasts its x amount
ShiftsAsCoded == ShiftStep => ShiftedBy(InputOp.operands[3].numComponents = 1)

\* a 1-component immediate with bits above the low five has shifted every
\* component of a register by the same masked count
ImmediateShiftBroadcast ==
    /\ ShiftStep
    /\ InputOp.operands[3].numComponents = 1
    /\ InputOp.operands[3].values[1] = <<1, 33>>
    /\ \A c \in 0..3 : WrittenSlot(1, c) /\ After(1)[c + 1] # Before(1)[c + 1]

\* a register operand selecting one component has shifted components y, z
\* and w by counts other than the selected one
RegisterShiftNotBroadcast ==
    /\ ShiftStep
    /\ ScalarShift
    /\ InputOp.operands[3].numComponents # 1
    /\ \E c \in 1..3 :
          /\ WrittenSlot(1, c)
          /\ ShiftCount(c) # ShiftCount(0)
          /\ ~ShiftedBits(InputOp.operation, InputSrc(2).uv[c + 1], ShiftCount(0),
                          After(1)[c + 1])

-----------------------------------------------------------------------------
(* C38 *)

\* the view the last load, store or atomic names
SharedView == IF InputOp.operation \in LoadOps THEN LoadView ELSE WriteView

\* the last call executed a load, store or atomic on thread-group-shared
\* memory
SharedStep ==
    /\ Stepped
    /\ InputOp.operation \in LoadOps \cup StoreOps \cup AtomicOps
    /\ SharedView.type = "THREAD_GROUP_SHARED_MEMORY"

\* the region index the operand gives
SharedIndex == SharedView.indices[1].index

\* no region was accessed: a load yields zero in every component it writes,
\* a store or atomic changes neither the GlobalState nor a register
NoRegionAccessed ==
    /\ global = globalIn
    /\ IF InputOp.operation \in LoadOps
       THEN \A i \in 1..4 : Written(1, i) => After(1)[i] = Zero32
       ELSE registers = input.registers

\* C38: for an atomic, load or store whose thread-group-shared-memory operand
\* index r is not below the number of group-shared regions (r >= count,
\* including r = count), no group-shared region is accessed: a load yields an
\* all-zero value and a store or atomic changes nothing.
C38_GroupSharedBounds ==
    (SharedStep /\ SharedIndex >= Len(globalIn.groupshared)) => NoRegionAccessed

\* the code's test is resIndex > size: past the number of regions nothing is
\* accessed
SharedPastCount ==
    (SharedStep /\ SharedIndex > Len(globalIn.groupshared)) => NoRegionAccessed

\* a load past the number of regions overwrote a non-zero register with zero
SharedLoadPastCount ==
    /\ SharedStep
    /\ InputOp.operation \in LoadOps
    /\ SharedIndex > Len(globalIn.groupshared)
    /\ \A i \in 1..4 : Before(1)[i] # Zero32
    /\ After(1) = Splat(Zero32)

\* a store past the number of regions ran
SharedStorePastCount ==
    /\ SharedStep
    /\ InputOp.operation \in StoreOps
    /\ SharedIndex > Len(globalIn.groupshared)

\* a load at r = count handed on words found one past the last region
SharedLoadAtCount ==
    /\ SharedStep
    /\ InputOp.operation \in LoadOps
    /\ SharedIndex = Len(globalIn.groupshared)
    /\ \E i \in 1..4 : Written(1, i) /\ After(1)[i] # Zero32

\* an immediate atomic at r = count wrote its destination register
SharedAtomicAtCount ==
    /\ SharedStep
    /\ InputOp.operation = "IMM_ATOMIC_IADD"
    /\ SharedIndex = Len(globalIn.groupshared)
    /\ registers # input.registers

-----------------------------------------------------------------------------
(* C39 *)

\* GetSrc was called on an immediate-constant-buffer operand
ImmediateCall == call.fn = "GetSrc"

\* the stored words and the vec4 index of that call
StoredWords == call.args[1]
VecIndex == call.args[2].indices[1].index

\* the vector the claim describes: the four stored words of vec4 VecIndex
\* when it lies below floor(L / 4), zeros otherwise
ClampedVector ==
    IF VecIndex < Len(StoredWords) \div 4
    THEN [j \in 1..4 |-> StoredWords[4 * VecIndex + j]]
    ELSE Splat(Zero32)

\* C39: GetSrc of an immediate-constant-buffer operand at vec4 index i returns
\* the four stored 32-bit words when i < floor(L/4), where L is the number of
\* stored words, and all zeros otherwise, for every L >= 0 including an empty
\* buffer (L = 0); it never reads outside the stored words.
C39_ImmediateBounds == ImmediateCall => call.result.uv = ClampedVector

\* with at least one whole vector stored the lookup is as described
ImmediateWholeVectors ==
    (ImmediateCall /\ Len(StoredWords) >= 4) => call.result.uv = ClampedVector

\* a stored vector other than the first was returned
ImmediateRead ==
    /\ ImmediateCall
    /\ 0 < VecIndex
    /\ VecIndex < Len(StoredWords) \div 4
    /\ call.result.uv = ClampedVector

\* a lookup past the last whole vector of a buffer of nine words gave zeros
ImmediateClamped ==
    /\ ImmediateCall
    /\ Len(StoredWords) = 9
    /\ VecIndex = 2
    /\ call.result.uv = Splat(Zero32)

\* a lookup in an empty buffer returned words that are not zero
ImmediateEmptyRead ==
    /\ ImmediateCall
    /\ Len(StoredWords) = 0
    /\ call.result.uv # Splat(Zero32)

\* a lookup in a buffer of fewer than four words returned the stored words
\* followed by what lies behind them
ImmediatePartialRead ==
    /\ ImmediateCall
    /\ Len(StoredWords) = 3
    /\ VecIndex = 0
    /\ \A j \in 1..3 : call.result.uv[j] = StoredWords[j]
    /\ call.result.uv[4] = MinusOne32

====
